---- MODULE Spec2Model ----
(***************************************************************************)
(* A model of lola's installation registry and of the install, uninstall,  *)
(* update and list commands (src/src/lola/cli/install.py,                  *)
(* src/src/lola/core/installer.py, src/src/lola/config.py).                *)
(*                                                                         *)
(* One CLI invocation is one action: the commands are single-threaded and  *)
(* run to completion.  The filesystem is the set `disk` of generated       *)
(* artifacts, the set `projects` of existing project directories and the   *)
(* set `local` of project-local module copies; the global module store is  *)
(* `modules`; the registry file is the sequence `registry`.  `last` is a   *)
(* history variable: what the last command was given, printed and did.     *)
(* `market` is the marketplace directory, its cache and the last search     *)
(* (src/src/lola/market/search.py); `procs` are command invocations seen at *)
(* the grain of their registry calls, for the runs in which two of them     *)
(* interleave.                                                              *)
(***************************************************************************)
EXTENDS Integers, Sequences, FiniteSets, TLC

VARIABLES modules, projects, local, disk, registry, last, steps, market, procs,
          fs

vars == <<modules, projects, local, disk, registry, last, steps, market, procs,
          fs>>

\* Python's None
None == "None"

-----------------------------------------------------------------------------
(* Bounds of the model *)

\* commands and environment changes in one behaviour
MaxSteps == 3

\* the same, in the longer runs of install, update and project removal alone
MaxLongSteps == 4

ModuleNames == {"a"}
SkillNames == {"s1", "s2"}
CommandNames == {"c1"}
ProjectPaths == {"/p1"}

-----------------------------------------------------------------------------
(* Helpers *)

SeqToSet(s) == {s[i] : i \in 1..Len(s)}

MapPrefixed(f(_), s) == [i \in 1..Len(s) |-> f(s[i])]

-----------------------------------------------------------------------------
(* config.py *)

\* Path.home(): the parent of LOLA_HOME, and the root of the user locations
HomeDir == "home"

\* keys of ASSISTANTS, in the order of the dict
AssistantOrder == <<"claude-code", "gemini-cli", "cursor">>

Assistants == SeqToSet(AssistantOrder)

\* the result of a path lookup that raised ValueError
ValueError == [assistant |-> "ValueError", root |-> "ValueError"]

\* get_assistant_skill_path: ValueError for an unknown assistant and for project
\* scope without a project path; the user location ignores project_path.
\* A location is the directory (for gemini-cli the GEMINI.md file) under the
\* home directory or under the project.
GetAssistantSkillPath(assistant, scope, project_path) ==
    IF assistant \notin Assistants THEN ValueError
    ELSE IF scope = "project"
         THEN IF project_path = None THEN ValueError
              ELSE [assistant |-> assistant, root |-> project_path]
         ELSE [assistant |-> assistant, root |-> HomeDir]

\* get_assistant_command_path: resolves for every known assistant, whatever
\* the scope and the project path; the call sites catch ValueError as for
\* skills.
GetAssistantCommandPath(assistant, scope, project_path) ==
    IF assistant \notin Assistants THEN ValueError
    ELSE IF scope = "project"
         THEN [assistant |-> assistant, root |-> project_path]
         ELSE [assistant |-> assistant, root |-> HomeDir]

\* get_local_modules_path: <project>/.lola/modules, or the global store itself.
\* MODULES_DIR is LOLA_HOME/modules = ~/.lola/modules, so the local modules
\* directory of the home directory is the global store.
GetLocalModulesPath(project_path) ==
    IF project_path = None \/ project_path = HomeDir
    THEN "MODULES_DIR"
    ELSE project_path

-----------------------------------------------------------------------------
(* Naming *)

\* f"{module.name}-{skill_name}"
PrefixedName(module_name, item) == module_name \o "-" \o item

StartsWith(s, prefix) ==
    Len(s) >= Len(prefix) /\ SubSeq(s, 1, Len(prefix)) = prefix

\* s contains t as a substring
Contains(s, t) ==
    \E k \in 1..(Len(s) - Len(t) + 1) : SubSeq(s, k, k + Len(t) - 1) = t

OriginalSkill_Keep(module_name, prefixed_skill) == prefixed_skill

\* update's inverse: strip the leading "<module>-" if present, else unchanged
OriginalSkill(module_name, prefixed_skill) ==
    LET prefix == module_name \o "-"
    IN  IF StartsWith(prefixed_skill, prefix)
        THEN SubSeq(prefixed_skill, Len(prefix) + 1, Len(prefixed_skill))
        ELSE prefixed_skill

\* get_command_filename: "<module>-<cmd>.md"
GetCommandFilename(assistant, module_name, cmd_name) ==
    PrefixedName(module_name, cmd_name) \o ".md"

-----------------------------------------------------------------------------
(* The installation registry (InstallationRegistry) *)

Installation(module_name, assistant, scope, project_path, skills, commands) ==
    [module_name |-> module_name, assistant |-> assistant, scope |-> scope,
     project_path |-> project_path, skills |-> skills, commands |-> commands]

SameTuple(r, module_name, assistant, scope, project_path) ==
    /\ r.module_name = module_name
    /\ r.assistant = assistant
    /\ r.scope = scope
    /\ r.project_path = project_path

\* add: upsert by (module, assistant, scope, project)
RegistryAdd(reg, inst) ==
    LET Other(r) == ~SameTuple(r, inst.module_name, inst.assistant, inst.scope,
                               inst.project_path)
    IN  Append(SelectSeq(reg, Other), inst)

\* find(module_name): the records of the module, in registry order
RegistryFind(reg, module_name) ==
    LET Match(r) == r.module_name = module_name
    IN  SelectSeq(reg, Match)

\* remove: delete the matching record if present
RegistryRemove(reg, module_name, assistant, scope, project_path) ==
    LET Other(r) == ~SameTuple(r, module_name, assistant, scope, project_path)
    IN  SelectSeq(reg, Other)

-----------------------------------------------------------------------------
(* The generator: one artifact on disk is                                  *)
(*   [assistant, root, kind, name, module]                                 *)
(* kind "skill" or "command" is a file or directory called `name` in the   *)
(* assistant's skill or command location under `root`; kind "section" is   *)
(* the section of (module, name) in the GEMINI.md under `root`.  For a     *)
(* file, `module` records which module wrote it last.                      *)

Artifact(dest, kind, name, module_name) ==
    [assistant |-> dest.assistant, root |-> dest.root, kind |-> kind,
     name |-> name, module |-> module_name]

SameFile(d, e) ==
    /\ d.assistant = e.assistant
    /\ d.root = e.root
    /\ d.kind = e.kind
    /\ d.name = e.name
    /\ (d.kind = "section" => d.module = e.module)

\* writing replaces whatever has the same place
WriteArtifacts(dsk, new) ==
    {d \in dsk : \A e \in new : ~SameFile(d, e)} \cup new

RemoveArtifacts(dsk, gone) ==
    {d \in dsk : \A e \in gone : ~SameFile(d, e)}

-----------------------------------------------------------------------------
(* The history variable *)

NoLast ==
    [cmd |-> "init", module |-> None, assistant |-> None, scope |-> None,
     project_path |-> None, force |-> FALSE, exit |-> 0, error |-> None,
     count |-> 0, summary |-> 0, ok |-> {}, failed |-> {}, wrote |-> {},
     removed |-> {}, copied |-> {}, stale |-> <<>>, processed |-> <<>>,
     matched |-> <<>>, prompted |-> FALSE, afterInstall |-> FALSE,
     installed |-> {}, out |-> <<>>, added |-> {}, replaced |-> {},
     all |-> FALSE, returned |-> {}, purged |-> {}, log |-> <<>>]

\* what a command threads through its loops: the files, the registry and
\* what it reported
Start ==
    [reg |-> registry, disk |-> disk, local |-> local, projects |-> projects,
     count |-> 0, ok |-> {}, failed |-> {}, wrote |-> {}, removed |-> {},
     copied |-> {}, stale |-> <<>>, processed |-> <<>>, added |-> {},
     replaced |-> {}, returned |-> {}, purged |-> {}, raised |-> FALSE,
     log |-> <<>>]

\* get_registry(): InstallationRegistry(INSTALLED_FILE) loads the file
GetRegistry(st) == [st EXCEPT !.log = Append(@, [op |-> "read"])]

\* a mutating call of the registry rewrites the file
Saved(st) == [st EXCEPT !.log = Append(@, [op |-> "write"])]

Item(assistant, kind, name) ==
    [assistant |-> assistant, kind |-> kind, name |-> name]

-----------------------------------------------------------------------------
(* core/installer.py *)

CopyModuleToLocal_Skip(st, module_name, local_modules) == st

\* copy_module_to_local: nothing when the destination is the module itself
\* (user scope); else mkdir -p the local modules directory and replace the
\* copy there by a fresh one
CopyModuleToLocal(st, module_name, local_modules) ==
    IF local_modules = "MODULES_DIR" THEN st
    ELSE [st EXCEPT !.projects = @ \cup {local_modules},
                    !.local = @ \cup {<<local_modules, module_name>>},
                    !.copied = @ \cup {<<local_modules, module_name>>}]

SkillsSkipped_Never(assistant, scope) == FALSE

\* the scope restriction of skills: gemini-cli and cursor have no user scope
SkillsSkipped(assistant, scope) ==
    assistant \in {"gemini-cli", "cursor"} /\ scope = "user"

\* the artifact one skill becomes at skill_dest
SkillArtifact(assistant, skill_dest, module_name, skill_name, prefixed_name) ==
    IF assistant = "gemini-cli"
    THEN Artifact(skill_dest, "section", skill_name, module_name)
    ELSE IF assistant = "cursor"
    THEN Artifact(skill_dest, "skill", prefixed_name \o ".mdc", module_name)
    ELSE Artifact(skill_dest, "skill", prefixed_name, module_name)

\* generate_*_command: the file get_command_filename names, at command_dest
CommandArtifact(assistant, command_dest, module_name, cmd_name) ==
    Artifact(command_dest, "command",
             GetCommandFilename(assistant, module_name, cmd_name), module_name)

ShouldRecord_Always(installed_skills, installed_commands) == TRUE

\* "Record installation": only when something was installed
ShouldRecord(installed_skills, installed_commands) ==
    installed_skills # <<>> \/ installed_commands # <<>>

RecordInstallation_Append(reg, installation) == Append(reg, installation)

\* registry.add(installation)
RecordInstallation(reg, installation) == RegistryAdd(reg, installation)

RecordedCommand_Prefixed(module_name, cmd_name) ==
    PrefixedName(module_name, cmd_name)

\* the name install records for an installed command: the raw command name
RecordedCommand(module_name, cmd_name) == cmd_name

InstalledCount_SkillsOnly(installed_skills, installed_commands) ==
    Len(installed_skills)

\* return len(installed_skills) + len(installed_commands)
InstalledCount(installed_skills, installed_commands) ==
    Len(installed_skills) + Len(installed_commands)

InstalledAtStart_Previous(previous) == previous

\* installed_skills = [], installed_commands = []: the lists of a call start
\* empty, whatever the record of an earlier call (previous) holds
InstalledAtStart(previous) == <<>>

InstallPlan_RecordFirst(assistant, skills, commands) ==
    <<[op |-> "record", items |-> <<>>]>>
        \o (IF assistant = "gemini-cli" /\ skills # <<>>
            THEN <<[op |-> "skill", items |-> skills]>>
            ELSE [k \in 1..Len(skills) |-> [op |-> "skill", items |-> <<skills[k]>>]])
        \o [k \in 1..Len(commands) |->
               [op |-> "command", items |-> <<commands[k]>>]]

\* the writes of install_to_assistant in the order of the code: the skills
\* (for gemini-cli the one update of GEMINI.md that takes them all), the
\* commands, and "Record installation" at the end
InstallPlan(assistant, skills, commands) ==
    (IF assistant = "gemini-cli" /\ skills # <<>>
     THEN <<[op |-> "skill", items |-> skills]>>
     ELSE [k \in 1..Len(skills) |-> [op |-> "skill", items |-> <<skills[k]>>]])
        \o [k \in 1..Len(commands) |->
               [op |-> "command", items |-> <<commands[k]>>]]
        \o <<[op |-> "record", items |-> <<>>]>>

\* what a call of install_to_assistant works with: the destinations, the
\* items it will find, the record it will hand to registry.add
InstallContext(st, module_name, mod, assistant, scope, project_path) ==
    LET trySkills == mod.skills # <<>> /\ ~SkillsSkipped(assistant, scope)
        skill_dest == IF trySkills
                      THEN GetAssistantSkillPath(assistant, scope, project_path)
                      ELSE ValueError
        doSkills == trySkills /\ skill_dest # ValueError
        SkillFound(s) == s \in mod.srcSkills
        okSkills == IF doSkills THEN SelectSeq(mod.skills, SkillFound) ELSE <<>>
        Prefix(s) == PrefixedName(module_name, s)
        before == {r \in SeqToSet(st.reg) :
                      SameTuple(r, module_name, assistant, scope, project_path)}
        previous == IF before = {}
                    THEN [skills |-> <<>>, commands |-> <<>>]
                    ELSE CHOOSE r \in before : TRUE
        installed_skills == InstalledAtStart(previous.skills)
                               \o MapPrefixed(Prefix, okSkills)
        command_dest == IF mod.commands # <<>>
                        THEN GetAssistantCommandPath(assistant, scope, project_path)
                        ELSE ValueError
        doCommands == mod.commands # <<>> /\ command_dest # ValueError
        CmdFound(c) == c \in mod.srcCmds
        okCmds == IF doCommands THEN SelectSeq(mod.commands, CmdFound) ELSE <<>>
        Recorded(c) == RecordedCommand(module_name, c)
        installed_commands == InstalledAtStart(previous.commands)
                                 \o MapPrefixed(Recorded, okCmds)
    IN  [module_name |-> module_name, mod |-> mod, assistant |-> assistant,
         skill_dest |-> skill_dest, command_dest |-> command_dest,
         before |-> before,
         installed_skills |-> installed_skills,
         installed_commands |-> installed_commands,
         files |-> {SkillArtifact(assistant, skill_dest, module_name, s,
                                  Prefix(s)) : s \in SeqToSet(okSkills)}
                      \cup {CommandArtifact(assistant, command_dest,
                                            module_name, c) : c \in SeqToSet(okCmds)},
         installation |-> Installation(module_name, assistant, scope,
                                       project_path, installed_skills,
                                       installed_commands),
         plan |-> InstallPlan(assistant,
                              IF doSkills THEN mod.skills ELSE <<>>,
                              IF doCommands THEN mod.commands ELSE <<>>)]

\* one write of install_to_assistant
InstallStep(st, c, step) ==
    LET found == IF step.op = "skill"
                 THEN SeqToSet(step.items) \cap c.mod.srcSkills
                 ELSE SeqToSet(step.items) \cap c.mod.srcCmds
        files == IF step.op = "skill"
                 THEN {SkillArtifact(c.assistant, c.skill_dest, c.module_name, s,
                                     PrefixedName(c.module_name, s)) : s \in found}
                 ELSE {CommandArtifact(c.assistant, c.command_dest,
                                       c.module_name, x) : x \in found}
    IN  IF step.op = "record"
        THEN IF ShouldRecord(c.installed_skills, c.installed_commands)
             THEN [st EXCEPT !.reg = RecordInstallation(@, c.installation),
                             !.log = Saved(st).log,
                             !.added = @ \cup {c.installation},
                             !.replaced = @ \cup c.before]
             ELSE st
        ELSE [st EXCEPT
                !.disk = WriteArtifacts(@, files),
                !.wrote = @ \cup files,
                !.ok = @ \cup {Item(c.assistant, step.op, x) : x \in found},
                !.failed = @ \cup {Item(c.assistant, step.op, x) :
                                      x \in SeqToSet(step.items) \ found}]

\* the step is noted with what holds after it: whether this call has stored
\* its record, and which files of the items the record names are not
\* written yet
Noted(st, c, step) ==
    [st EXCEPT !.log = Append(@, [op |-> "step", part |-> step.op,
                                  assistant |-> c.assistant,
                                  recorded |-> c.installation \in st.added,
                                  unwritten |-> c.files \ st.wrote])]

RECURSIVE InstallThrough(_, _, _)
\* the writes of the plan one after the other
InstallThrough(st, c, todo) ==
    IF todo = <<>> THEN st
    ELSE InstallThrough(Noted(InstallStep(st, c, Head(todo)), c, Head(todo)),
                        c, Tail(todo))

\* install_to_assistant; mod is the Module (its manifest and its files)
InstallToAssistant(st, module_name, mod, assistant, scope, project_path) ==
    LET c == InstallContext(st, module_name, mod, assistant, scope, project_path)
        st1 == CopyModuleToLocal(st, module_name,
                                 GetLocalModulesPath(project_path))
        done == InstallThrough(st1, c, c.plan)
    IN  [done EXCEPT
            !.returned = @ \cup
                {[assistant |-> assistant,
                  count |-> InstalledCount(c.installed_skills,
                                           c.installed_commands)]},
            !.count = @ + InstalledCount(c.installed_skills, c.installed_commands)]

\* install_to_assistant when the process is killed after the first k writes
\* of the plan, before "Record installation"
InstallInterrupted(st, module_name, mod, assistant, scope, project_path, k) ==
    LET c == InstallContext(st, module_name, mod, assistant, scope, project_path)
        st1 == CopyModuleToLocal(st, module_name,
                                 GetLocalModulesPath(project_path))
    IN  InstallThrough(st1, c, SubSeq(c.plan, 1, k))

-----------------------------------------------------------------------------
(* cli/install.py: install *)

RECURSIVE InstallAll(_, _, _, _, _, _)
\* for asst in assistants_to_install: install_to_assistant(...)
InstallAll(st, module_name, mod, assistants, scope, project_path) ==
    IF assistants = <<>> THEN st
    ELSE InstallAll(InstallToAssistant(st, module_name, mod, Head(assistants),
                                       scope, project_path),
                    module_name, mod, Tail(assistants), scope, project_path)

\* Path(project_path).resolve(): the model's paths are absolute already
Resolve(project_path) == project_path

InstallPrecondition_NoExistsCheck(module_name, scope, project_path) ==
    IF scope = "project" /\ project_path = None THEN "project path required"
    ELSE IF modules[module_name].status # "ok" THEN "module not found"
    ELSE None

\* the precondition that ends install with SystemExit(1), or None
InstallPrecondition(module_name, scope, project_path) ==
    IF scope = "project" /\ project_path = None THEN "project path required"
    ELSE IF scope = "project" /\ Resolve(project_path) \notin projects
    THEN "project path does not exist"
    ELSE IF modules[module_name].status = "absent" THEN "module not found"
    ELSE IF modules[module_name].status = "nomanifest" THEN "invalid module"
    ELSE IF modules[module_name].status = "invalid" THEN "validation errors"
    ELSE None

AssistantsToInstall_First(assistant) ==
    IF assistant # None THEN <<assistant>> ELSE <<Head(AssistantOrder)>>

\* assistants_to_install
AssistantsToInstall(assistant) ==
    IF assistant # None THEN <<assistant>> ELSE AssistantOrder

Finish(st, l) ==
    /\ registry' = st.reg
    /\ disk' = st.disk
    /\ local' = st.local
    /\ projects' = st.projects
    /\ last' = [l EXCEPT !.count = st.count, !.ok = st.ok, !.failed = st.failed,
                         !.wrote = st.wrote, !.removed = st.removed,
                         !.copied = st.copied, !.stale = st.stale,
                         !.processed = st.processed, !.added = st.added,
                         !.replaced = st.replaced, !.returned = st.returned,
                         !.purged = st.purged, !.log = st.log,
                         !.exit = IF st.raised THEN 1 ELSE @]
    /\ steps' = steps + 1
    \* a module directory removed from the global store is gone
    /\ modules' = [m \in DOMAIN modules |->
                      IF m \in st.purged
                      THEN [modules[m] EXCEPT !.status = "absent"]
                      ELSE modules[m]]
    /\ UNCHANGED <<market, procs, fs>>

InstallCmd(module_name, assistant, scope, project_path) ==
    LET error == InstallPrecondition(module_name, scope, project_path)
        mod == modules[module_name]
        path == IF scope = "project" THEN Resolve(project_path) ELSE project_path
        l == [NoLast EXCEPT !.cmd = "install", !.module = module_name,
                            !.assistant = assistant, !.scope = scope,
                            !.project_path = path]
    IN  /\ IF error # None
           THEN Finish(Start, [l EXCEPT !.exit = 1, !.error = error])
           ELSE IF mod.skills = <<>> /\ mod.commands = <<>>
           THEN Finish(Start, [l EXCEPT !.error = "no skills or commands"])
           ELSE Finish(InstallAll(GetRegistry(Start), module_name, mod,
                                  AssistantsToInstall(assistant), scope, path),
                       [l EXCEPT !.summary =
                            Len(AssistantsToInstall(assistant))])

\* install when the process is killed in the call of install_to_assistant
\* for the j-th assistant, after the first k writes of that call
InstallKilledCmd(module_name, assistant, scope, project_path, j, k) ==
    LET mod == modules[module_name]
        path == IF scope = "project" THEN Resolve(project_path) ELSE project_path
        todo == AssistantsToInstall(assistant)
        st == InstallAll(GetRegistry(Start), module_name, mod,
                         SubSeq(todo, 1, j - 1), scope, path)
        l == [NoLast EXCEPT !.cmd = "killed", !.module = module_name,
                            !.assistant = assistant, !.scope = scope,
                            !.project_path = path, !.out = <<todo[j]>>]
    IN  /\ InstallPrecondition(module_name, scope, project_path) = None
        /\ mod.skills # <<>> \/ mod.commands # <<>>
        /\ j \in 1..Len(todo)
        /\ k < Len(InstallContext(st, module_name, mod, todo[j], scope, path).plan)
        /\ Finish(InstallInterrupted(st, module_name, mod, todo[j], scope, path, k), l)

-----------------------------------------------------------------------------
(* cli/install.py: uninstall *)

RecordedSkillFiles_AnyModule(dsk, inst, skill_dest, module_name) ==
    IF inst.assistant = "gemini-cli"
    THEN {d \in dsk : /\ d.kind = "section"
                      /\ d.assistant = skill_dest.assistant
                      /\ d.root = skill_dest.root}
    ELSE IF inst.assistant = "cursor"
    THEN {Artifact(skill_dest, "skill", n \o ".mdc", module_name) :
             n \in SeqToSet(inst.skills)}
    ELSE {Artifact(skill_dest, "skill", n, module_name) :
             n \in SeqToSet(inst.skills)}

\* the artifacts the record's skills name at skill_dest
RecordedSkillFiles(dsk, inst, skill_dest, module_name) ==
    IF inst.assistant = "gemini-cli"
    THEN \* remove_gemini_skills: every section of the module in GEMINI.md
         {d \in dsk : /\ d.kind = "section"
                      /\ d.assistant = skill_dest.assistant
                      /\ d.root = skill_dest.root
                      /\ d.module = module_name}
    ELSE IF inst.assistant = "cursor"
    THEN {Artifact(skill_dest, "skill", n \o ".mdc", module_name) :
             n \in SeqToSet(inst.skills)}
    ELSE {Artifact(skill_dest, "skill", n, module_name) :
             n \in SeqToSet(inst.skills)}

RecordedCommandFiles_Unprefixed(inst, command_dest, module_name) ==
    {Artifact(command_dest, "command", c \o ".md", module_name) :
        c \in SeqToSet(inst.commands)}

\* get_command_filename names the file of each recorded command
RecordedCommandFiles(inst, command_dest, module_name) ==
    {Artifact(command_dest, "command",
              GetCommandFilename(inst.assistant, module_name, c), module_name) :
        c \in SeqToSet(inst.commands)}

Unlinkable_Unchecked(dsk, gone) == gone

\* the files uninstall calls unlink() or rmtree() on: each is guarded by
\* exists(), so only those that are there
Unlinkable(dsk, gone) == {e \in gone : \E d \in dsk : SameFile(d, e)}

\* the skill artifacts the record names, at the place its assistant keeps them
SkillFilesOf(dsk, module_name, inst) ==
    LET skill_dest == IF inst.skills # <<>>
                      THEN GetAssistantSkillPath(inst.assistant, inst.scope,
                                                 inst.project_path)
                      ELSE ValueError
    IN  IF skill_dest # ValueError
        THEN RecordedSkillFiles(dsk, inst, skill_dest, module_name)
        ELSE {}

\* the command files the record names
CommandFilesOf(module_name, inst) ==
    LET command_dest == IF inst.commands # <<>>
                        THEN GetAssistantCommandPath(inst.assistant, inst.scope,
                                                     inst.project_path)
                        ELSE ValueError
    IN  IF command_dest # ValueError
        THEN RecordedCommandFiles(inst, command_dest, module_name)
        ELSE {}

\* the project-local copy of the module a project-scope record has
LocalCopyOf(module_name, inst) ==
    IF inst.scope = "project" /\ inst.project_path # None
    THEN {<<GetLocalModulesPath(inst.project_path), module_name>>}
    ELSE {}

\* unlink() or rmtree() of the files found; on a path that is not there
\* either of them raises
RemoveFound(st, gone) ==
    IF \E e \in gone : \A d \in st.disk : ~SameFile(d, e)
    THEN [st EXCEPT !.raised = TRUE]
    ELSE [st EXCEPT
            !.removed = @ \cup {d \in st.disk : \E e \in gone : SameFile(d, e)},
            !.disk = RemoveArtifacts(@, gone)]

UninstallSteps_RecordFirst == <<"record", "skills", "commands", "copy">>

\* the order of the body of "for inst in installations": the skills, the
\* commands, the local copy, then registry.remove
UninstallSteps == <<"skills", "commands", "copy", "record">>

\* one of the four parts of the loop body
UninstallStep(st, module_name, inst, step) ==
    LET copy == LocalCopyOf(module_name, inst)
        \* source_module is the module's directory in the global store
        purged == IF /\ copy # {}
                     /\ GetLocalModulesPath(inst.project_path) = "MODULES_DIR"
                     /\ modules[module_name].status # "absent"
                  THEN {module_name}
                  ELSE {}
    IN  CASE step = "skills" ->
                RemoveFound(st, Unlinkable(st.disk,
                                           SkillFilesOf(st.disk, module_name, inst)))
          [] step = "commands" ->
                RemoveFound(st, Unlinkable(st.disk, CommandFilesOf(module_name, inst)))
          [] step = "copy" ->
                [st EXCEPT !.local = @ \ copy, !.purged = @ \cup purged]
          [] step = "record" ->
                Saved([st EXCEPT !.reg = RegistryRemove(@, module_name,
                                                        inst.assistant, inst.scope,
                                                        inst.project_path)])

\* what the record names that is still there
Pending(st, module_name, inst) ==
    [files |-> {d \in st.disk :
                   \E e \in SkillFilesOf(st.disk, module_name, inst)
                            \cup CommandFilesOf(module_name, inst) : SameFile(d, e)},
     copy |-> LocalCopyOf(module_name, inst) \cap st.local]

RECURSIVE UninstallThrough(_, _, _, _)
\* the parts of the loop body one after the other; an exception ends them
UninstallThrough(st, module_name, inst, todo) ==
    IF todo = <<>> \/ st.raised THEN st
    ELSE LET st1 == UninstallStep(st, module_name, inst, Head(todo))
             entry == [op |-> Head(todo), inst |-> inst,
                       recorded |-> inst \in SeqToSet(st1.reg),
                       pending |-> Pending(st1, module_name, inst)]
         IN  UninstallThrough([st1 EXCEPT !.log = Append(@, entry)],
                              module_name, inst, Tail(todo))

\* the body of "for inst in installations" of uninstall_cmd
UninstallOne(st, module_name, inst) ==
    UninstallThrough(st, module_name, inst, UninstallSteps)

RECURSIVE UninstallEach_FirstOnly(_, _, _)
UninstallEach_FirstOnly(st, module_name, installations) ==
    IF installations = <<>> \/ st.raised THEN st
    ELSE UninstallOne(st, module_name, Head(installations))

RECURSIVE UninstallEach(_, _, _)
UninstallEach(st, module_name, installations) ==
    IF installations = <<>> \/ st.raised THEN st
    ELSE UninstallEach(UninstallOne(st, module_name, Head(installations)),
                       module_name, Tail(installations))

\* the records uninstall works on: find(module_name), then the filters given
UninstallMatches(reg, module_name, assistant, scope, project_path) ==
    LET Keep(i) == /\ (assistant # None => i.assistant = assistant)
                   /\ (scope # None => i.scope = scope)
                   /\ (project_path # None =>
                          i.project_path = Resolve(project_path))
    IN  SelectSeq(RegistryFind(reg, module_name), Keep)

NeedsConfirm_Never(installations, force) == FALSE

\* "Confirm if multiple installations and not forced"
NeedsConfirm(installations, force) == Len(installations) > 1 /\ ~force

UninstallCmd(module_name, assistant, scope, project_path, force, confirm) ==
    LET installations == UninstallMatches(registry, module_name, assistant,
                                          scope, project_path)
        prompted == NeedsConfirm(installations, force)
        l == [NoLast EXCEPT !.cmd = "uninstall", !.module = module_name,
                            !.force = force,
                            !.matched = installations, !.prompted = prompted,
                            !.afterInstall = (last.cmd = "install" /\ last.exit = 0
                                              /\ last.module = module_name),
                            !.installed = last.wrote,
                            !.all = (installations =
                                        RegistryFind(registry, module_name))]
    IN  \* the answer is read only when asked for, and the options only when
        \* the module has a record
        /\ (prompted \/ confirm)
        /\ (RegistryFind(registry, module_name) = <<>> =>
               assistant = None /\ scope = None /\ project_path = None /\ ~force)
        /\ IF RegistryFind(registry, module_name) = <<>>
           THEN Finish(GetRegistry(Start), [l EXCEPT !.error = "no installations"])
           ELSE IF installations = <<>>
           THEN Finish(GetRegistry(Start),
                       [l EXCEPT !.error = "no matching installations"])
           ELSE IF prompted /\ ~confirm
           THEN Finish(GetRegistry(Start), [l EXCEPT !.error = "cancelled"])
           ELSE Finish(UninstallEach(GetRegistry(Start), module_name,
                                     installations), l)

-----------------------------------------------------------------------------
(* cli/install.py: update *)

\* "Check if project path still exists for project-scoped installations"
IsStale(inst, existing) ==
    /\ inst.scope = "project"
    /\ inst.project_path # None
    /\ inst.project_path \notin existing

SkillDestName_Reprefixed(module_name, prefixed_skill) ==
    PrefixedName(module_name, OriginalSkill(module_name, prefixed_skill))

\* the name update generates a skill under: dest = skill_dest / prefixed_skill,
\* generate_cursor_rule(source, skill_dest, prefixed_skill, ...)
SkillDestName(module_name, prefixed_skill) == prefixed_skill

\* the skills and commands update writes for one record, from the refreshed
\* local copy of the module: every recorded name whose source exists
UpdateSkillFiles(inst, mod, skill_dest) ==
    {SkillArtifact(inst.assistant, skill_dest, inst.module_name,
                   OriginalSkill(inst.module_name, n),
                   SkillDestName(inst.module_name, n)) :
        n \in {x \in SeqToSet(inst.skills) :
                  OriginalSkill(inst.module_name, x) \in mod.srcSkills}}

UpdateCommandFiles(inst, mod, command_dest) ==
    {CommandArtifact(inst.assistant, command_dest, inst.module_name, c) :
        c \in {x \in SeqToSet(inst.commands) : x \in mod.srcCmds}}

UpdateRegistry_Recompute(reg, inst, mod) ==
    LET Found(n) == OriginalSkill(inst.module_name, n) \in mod.srcSkills
        CmdFound(c) == c \in mod.srcCmds
    IN  RegistryAdd(reg, [inst EXCEPT !.skills = SelectSeq(@, Found),
                                      !.commands = SelectSeq(@, CmdFound)])

\* what update stores in the registry for a record it regenerated: nothing,
\* update_cmd never calls registry.add
UpdateRegistry(reg, inst, mod) == reg

\* the body of "for inst in installations" of update_cmd
UpdateOne(st, inst) ==
    LET mod == modules[inst.module_name]
        st1 == CopyModuleToLocal(st, inst.module_name,
                                 GetLocalModulesPath(inst.project_path))
        first_dest == GetAssistantSkillPath(inst.assistant, inst.scope,
                                            inst.project_path)
        skill_dest == IF inst.skills # <<>> THEN first_dest ELSE ValueError
        skillFiles == IF skill_dest # ValueError
                      THEN UpdateSkillFiles(inst, mod, skill_dest)
                      ELSE {}
        okSkills == IF skill_dest # ValueError
                    THEN {n \in SeqToSet(inst.skills) :
                             OriginalSkill(inst.module_name, n) \in mod.srcSkills}
                    ELSE {}
        badSkills == IF skill_dest # ValueError
                     THEN SeqToSet(inst.skills) \ okSkills
                     ELSE {}
        command_dest == IF inst.commands # <<>>
                        THEN GetAssistantCommandPath(inst.assistant, inst.scope,
                                                     inst.project_path)
                        ELSE ValueError
        cmdFiles == IF command_dest # ValueError
                    THEN UpdateCommandFiles(inst, mod, command_dest)
                    ELSE {}
        okCmds == IF command_dest # ValueError
                  THEN {c \in SeqToSet(inst.commands) : c \in mod.srcCmds}
                  ELSE {}
        badCmds == IF command_dest # ValueError
                   THEN SeqToSet(inst.commands) \ okCmds
                   ELSE {}
    IN  IF IsStale(inst, st.projects)
        THEN [st EXCEPT !.stale = Append(@, inst)]
        ELSE IF mod.status # "ok"
        THEN \* not in the store, no manifest, or validation errors: next record
             [st EXCEPT !.failed = @ \cup
                 {[assistant |-> inst.assistant, kind |-> "module",
                   name |-> inst.module_name, inst |-> inst]}]
        ELSE IF first_dest = ValueError
        THEN st1
        ELSE [st1 EXCEPT
                !.disk = WriteArtifacts(@, skillFiles \cup cmdFiles),
                !.wrote = @ \cup skillFiles \cup cmdFiles,
                !.ok = @ \cup {[assistant |-> inst.assistant, kind |-> "skill",
                                name |-> n, inst |-> inst] : n \in okSkills}
                         \cup {[assistant |-> inst.assistant, kind |-> "command",
                                name |-> c, inst |-> inst] : c \in okCmds},
                !.failed = @ \cup {[assistant |-> inst.assistant, kind |-> "skill",
                                    name |-> n, inst |-> inst] : n \in badSkills}
                             \cup {[assistant |-> inst.assistant, kind |-> "command",
                                    name |-> c, inst |-> inst] : c \in badCmds},
                !.reg = UpdateRegistry(@, inst, mod),
                !.processed = Append(@, inst)]

RECURSIVE UpdateEach(_, _)
UpdateEach(st, installations) ==
    IF installations = <<>> THEN st
    ELSE UpdateEach(UpdateOne(st, Head(installations)), Tail(installations))

\* registry.all() with the module and assistant filters of update
UpdateMatches(reg, module_name, assistant) ==
    LET Keep(i) == /\ (module_name # None => i.module_name = module_name)
                   /\ (assistant # None => i.assistant = assistant)
    IN  SelectSeq(reg, Keep)

UpdateCmd(module_name, assistant) ==
    LET installations == UpdateMatches(registry, module_name, assistant)
        l == [NoLast EXCEPT !.cmd = "update", !.matched = installations]
    IN  /\ (registry = <<>> => module_name = None /\ assistant = None)
        /\ IF installations = <<>>
           THEN Finish(GetRegistry(Start), [l EXCEPT !.error = "no installations"])
           ELSE Finish(UpdateEach(GetRegistry(Start), installations), l)

-----------------------------------------------------------------------------
(* cli/install.py: list *)

ListMatches(reg, assistant) ==
    LET Keep(i) == assistant # None => i.assistant = assistant
    IN  SelectSeq(reg, Keep)

RECURSIVE ModuleOrder_Every(_, _)
ModuleOrder_Every(installations, seen) ==
    IF installations = <<>> THEN seen
    ELSE ModuleOrder_Every(Tail(installations),
                           Append(seen, Head(installations).module_name))

RECURSIVE ModuleOrder(_, _)
\* the keys of by_module: module names in order of first appearance
ModuleOrder(installations, seen) ==
    IF installations = <<>> THEN seen
    ELSE ModuleOrder(Tail(installations),
                     IF Head(installations).module_name \in SeqToSet(seen)
                     THEN seen
                     ELSE Append(seen, Head(installations).module_name))

\* by_module: for each module name the records shown under it
ListGroups(installations) ==
    LET order == ModuleOrder(installations, <<>>)
    IN  [g \in 1..Len(order) |->
            LET Of(i) == i.module_name = order[g]
            IN  [module |-> order[g], insts |-> SelectSeq(installations, Of)]]

ListInstalledCmd(assistant) ==
    LET installations == ListMatches(registry, assistant)
        l == [NoLast EXCEPT !.cmd = "list", !.assistant = assistant,
                            !.matched = installations]
    IN  /\ (registry = <<>> => assistant = None)
        /\ IF installations = <<>>
           THEN Finish(GetRegistry(Start),
                       [l EXCEPT !.error = "no modules installed"])
           ELSE Finish(GetRegistry(Start),
                       [l EXCEPT !.out = ListGroups(installations),
                                        !.summary = Len(ListGroups(installations))])

-----------------------------------------------------------------------------
(* market/search.py *)

\* the longest description the search functions are given
MaxDescLen == 64

\* a description is cut after this many characters
DescLimit == 60

UpperCase == "ABCDEFGHIJKLMNOPQRSTUVWXYZ"

LowerCase == "abcdefghijklmnopqrstuvwxyz"

\* the letter of `to` that stands where c stands in `from`, or c
Fold(c, from, to) ==
    IF \E k \in 1..Len(from) : SubSeq(from, k, k) = c
    THEN LET k == CHOOSE k \in 1..Len(from) : SubSeq(from, k, k) = c
         IN  SubSeq(to, k, k)
    ELSE c

RECURSIVE Lower(_)
\* str.lower()
Lower(text) ==
    IF text = "" THEN ""
    ELSE Fold(SubSeq(text, 1, 1), UpperCase, LowerCase)
            \o Lower(SubSeq(text, 2, Len(text)))

\* dict.get(key, default) of a catalog entry
Get(module, key, default) == IF key \in module.has THEN module[key] ELSE default

\* Marketplace.from_cache: the catalog of the cached file
FromCache(cache_file, catalogs) == [modules |-> catalogs[cache_file]]

RECURSIVE GetEnabledMarketplaces_IgnoreEnabled(_, _, _)
GetEnabledMarketplaces_IgnoreEnabled(refs, cache, catalogs) ==
    IF refs = <<>> THEN <<>>
    ELSE LET marketplace_ref == Head(refs)
             rest == GetEnabledMarketplaces_IgnoreEnabled(Tail(refs), cache,
                                                          catalogs)
         IN  IF marketplace_ref.name \notin cache THEN rest
             ELSE <<[marketplace |-> FromCache(marketplace_ref.name, catalogs),
                     name |-> marketplace_ref.name]>> \o rest

RECURSIVE GetEnabledMarketplaces(_, _, _)
\* get_enabled_marketplaces: refs are the reference files in the order of
\* glob("*.yml"), cache the names that have a file in cache_dir
GetEnabledMarketplaces(refs, cache, catalogs) ==
    IF refs = <<>> THEN <<>>
    ELSE LET marketplace_ref == Head(refs)
             rest == GetEnabledMarketplaces(Tail(refs), cache, catalogs)
         IN  IF ~marketplace_ref.enabled THEN rest
             ELSE IF marketplace_ref.name \notin cache THEN rest
             ELSE <<[marketplace |-> FromCache(marketplace_ref.name, catalogs),
                     name |-> marketplace_ref.name]>> \o rest

MatchModule_CaseSensitive(module, query_lower) ==
    LET name == Get(module, "name", "")
        description == Get(module, "description", "")
        tags == Get(module, "tags", <<>>)
    IN  \/ Contains(name, query_lower)
        \/ Contains(description, query_lower)
        \/ \E t \in 1..Len(tags) : Contains(tags[t], query_lower)

\* match_module
MatchModule(module, query_lower) ==
    LET name == Lower(Get(module, "name", ""))
        description == Lower(Get(module, "description", ""))
        tags == Get(module, "tags", <<>>)
    IN  \/ Contains(name, query_lower)
        \/ Contains(description, query_lower)
        \/ \E t \in 1..Len(tags) : Contains(Lower(tags[t]), query_lower)

FormatSearchResult_NoCut(module, marketplace_name) ==
    [name |-> Get(module, "name", ""),
     description |-> Get(module, "description", ""),
     version |-> Get(module, "version", ""),
     marketplace |-> marketplace_name]

\* format_search_result
FormatSearchResult(module, marketplace_name) ==
    LET description == Get(module, "description", "")
    IN  [name |-> Get(module, "name", ""),
         description |-> IF Len(description) > DescLimit
                         THEN SubSeq(description, 1, DescLimit) \o "..."
                         ELSE description,
         version |-> Get(module, "version", ""),
         marketplace |-> marketplace_name]

RECURSIVE SearchModules(_, _, _)
\* for module in marketplace.modules
SearchModules(mods, marketplace_name, query_lower) ==
    IF mods = <<>> THEN <<>>
    ELSE (IF MatchModule(Head(mods), query_lower)
          THEN <<FormatSearchResult(Head(mods), marketplace_name)>>
          ELSE <<>>)
            \o SearchModules(Tail(mods), marketplace_name, query_lower)

RECURSIVE SearchMarketplaces(_, _)
\* for marketplace, marketplace_name in marketplaces
SearchMarketplaces(marketplaces, query_lower) ==
    IF marketplaces = <<>> THEN <<>>
    ELSE SearchModules(Head(marketplaces).marketplace.modules,
                       Head(marketplaces).name, query_lower)
            \o SearchMarketplaces(Tail(marketplaces), query_lower)

\* search_market
SearchMarket(query, refs, cache, catalogs) ==
    SearchMarketplaces(GetEnabledMarketplaces(refs, cache, catalogs), Lower(query))

RECURSIVE Filler(_)
\* a text of n characters
Filler(n) == IF n = 0 THEN "" ELSE "x" \o Filler(n - 1)

MarketNames == {"m1", "m2"}

\* the catalogs the marketplaces publish
Catalogs ==
    [n \in MarketNames |->
        IF n = "m1"
        THEN <<[name |-> "Git-Tools", description |-> "GIT Utilities",
                tags |-> <<"VCS">>, version |-> "1.0.0",
                has |-> {"name", "description", "tags", "version"}],
               [name |-> "web", description |-> "", tags |-> <<"GitHub", "x">>,
                version |-> "", has |-> {"name", "tags"}]>>
        ELSE <<[name |-> "lint", description |-> "Py" \o Filler(DescLimit - 1),
                tags |-> <<>>, version |-> "", has |-> {"name", "description"}],
               [name |-> "Digits", description |-> "Counts",
                tags |-> <<>>, version |-> "2.0", has |-> {"name", "description", "version"}]>>]

Queries == {"git", "GIT", "Git", "vcs", "py", "UTIL", "zz", ""}

\* the reference files of the market directory: a name, whether the
\* marketplace is enabled, and whether its URL can be downloaded
RefsOver(names) ==
    {r \in [1..Cardinality(names) ->
               [name : names, enabled : BOOLEAN, up : BOOLEAN]] :
        \A i, j \in DOMAIN r : r[i].name = r[j].name => i = j}

-----------------------------------------------------------------------------
(* The environment: the module store and the project directories change     *)
(* between commands                                                         *)

FullModule ==
    [status |-> "ok", skills |-> <<"s1", "s2">>, commands |-> <<"c1">>,
     srcSkills |-> SkillNames, srcCmds |-> CommandNames]

Without(s, x) == LET Keep(y) == y # x IN SelectSeq(s, Keep)

EnvDone(l) ==
    /\ last' = [NoLast EXCEPT !.cmd = l]
    /\ steps' = steps + 1
    /\ UNCHANGED <<market, procs, fs>>

\* the module's author drops a skill or a command: manifest entry and files
RemoveItem(m, x) ==
    /\ x \in SeqToSet(modules[m].skills) \cup SeqToSet(modules[m].commands)
    /\ modules' = [modules EXCEPT ![m].skills = Without(@, x),
                                  ![m].commands = Without(@, x),
                                  ![m].srcSkills = @ \ {x},
                                  ![m].srcCmds = @ \ {x}]
    /\ EnvDone("edit")
    /\ UNCHANGED <<projects, local, disk, registry>>

\* the module's author adds one
AddItem(m, x) ==
    /\ x \notin SeqToSet(modules[m].skills) \cup SeqToSet(modules[m].commands)
    /\ modules' = IF x \in SkillNames
                  THEN [modules EXCEPT ![m].skills = Append(@, x),
                                       ![m].srcSkills = @ \cup {x}]
                  ELSE [modules EXCEPT ![m].commands = Append(@, x),
                                       ![m].srcCmds = @ \cup {x}]
    /\ EnvDone("edit")
    /\ UNCHANGED <<projects, local, disk, registry>>

\* a source file disappears while the manifest still lists it
LoseSource(m, x) ==
    /\ x \in modules[m].srcSkills \cup modules[m].srcCmds
    /\ x \in SeqToSet(modules[m].skills) \cup SeqToSet(modules[m].commands)
    /\ modules' = [modules EXCEPT ![m].srcSkills = @ \ {x},
                                  ![m].srcCmds = @ \ {x}]
    /\ EnvDone("edit")
    /\ UNCHANGED <<projects, local, disk, registry>>

\* the module leaves the store, loses its manifest, or stops validating
BreakModule(m, status) ==
    /\ modules[m].status = "ok"
    /\ modules' = [modules EXCEPT ![m].status = status]
    /\ EnvDone("edit")
    /\ UNCHANGED <<projects, local, disk, registry>>

\* rm -rf of a project directory: everything under it goes
DeleteProject(p) ==
    /\ p \in projects
    /\ projects' = projects \ {p}
    /\ disk' = {d \in disk : d.root # p}
    /\ local' = {c \in local : c[1] # p}
    /\ EnvDone("rmproject")
    /\ UNCHANGED <<modules, registry>>

\* someone deletes one generated file, directory or GEMINI.md section
DeleteArtifact(d) ==
    /\ d \in disk
    /\ disk' = disk \ {d}
    /\ EnvDone("rmfile")
    /\ UNCHANGED <<modules, projects, local, registry>>

\* someone deletes a project-local copy of a module
DeleteLocalCopy(c) ==
    /\ c \in local
    /\ local' = local \ {c}
    /\ EnvDone("rmcopy")
    /\ UNCHANGED <<modules, projects, disk, registry>>

-----------------------------------------------------------------------------
(* The specification *)

\* no marketplace, nothing searched
NoMarket ==
    [refs |-> <<>>, cache |-> {}, before |-> {}, query |-> "", results |-> <<>>,
     enabled |-> <<>>, input |-> <<>>, pc |-> "idle"]

\* no invocation under way; `attempt` is the last save of the registry file
\* (the file before it and the content it writes), `complete` the contents
\* the file had at the start and every content a call set out to write,
\* `writer` the invocation whose content the file holds
NoProcs ==
    [run |-> <<>>, attempt |-> [old |-> <<>>, new |-> <<>>],
     complete |-> {<<>>}, writer |-> 0]

\* the files copy_module_to_local works on: the module in the store (its
\* content, 0 when it is not there), and per local modules directory what
\* the directory is and what stands in it under the module's name
NoFs == [store |-> 1, parent |-> <<>>, dest |-> <<>>]

Init ==
    /\ modules = [m \in ModuleNames |-> FullModule]
    /\ projects = ProjectPaths
    /\ local = {}
    /\ disk = {}
    /\ registry = <<>>
    /\ last = NoLast
    /\ steps = 0
    /\ market = NoMarket
    /\ procs = NoProcs
    /\ fs = NoFs

Scopes == {"user", "project"}

Statuses == {"absent", "nomanifest", "invalid"}

Install ==
    /\ steps < MaxSteps
    /\ \E m \in DOMAIN modules, a \in Assistants \cup {None}, s \in Scopes,
          p \in ProjectPaths \cup {None} : InstallCmd(m, a, s, p)

Uninstall ==
    /\ steps < MaxSteps
    /\ \E m \in DOMAIN modules, a \in Assistants \cup {None},
          s \in Scopes \cup {None}, p \in ProjectPaths \cup {None},
          force \in BOOLEAN, confirm \in BOOLEAN :
            UninstallCmd(m, a, s, p, force, confirm)

Update ==
    /\ steps < MaxSteps
    /\ \E m \in DOMAIN modules \cup {None}, a \in Assistants \cup {None} :
            UpdateCmd(m, a)

List ==
    /\ steps < MaxSteps
    /\ \E a \in Assistants \cup {None} : ListInstalledCmd(a)

EditModule ==
    /\ steps < MaxSteps
    /\ \E m \in DOMAIN modules, x \in SkillNames \cup CommandNames :
            RemoveItem(m, x) \/ AddItem(m, x) \/ LoseSource(m, x)

BreakStore ==
    /\ steps < MaxSteps
    /\ \E m \in DOMAIN modules, status \in Statuses : BreakModule(m, status)

ProjectGone ==
    /\ steps < MaxSteps
    /\ \E p \in ProjectPaths : DeleteProject(p)

Next ==
    \/ Install
    \/ Uninstall
    \/ Update
    \/ List
    \/ EditModule
    \/ BreakStore
    \/ ProjectGone

Spec == Init /\ [][Next]_vars

(* Longer runs of install, update and the removal of a project directory *)

LongInstall ==
    /\ steps < MaxLongSteps
    /\ \E m \in DOMAIN modules, a \in Assistants \cup {None}, s \in Scopes,
          p \in ProjectPaths \cup {None} : InstallCmd(m, a, s, p)

LongUpdate ==
    /\ steps < MaxLongSteps
    /\ \E m \in DOMAIN modules \cup {None}, a \in Assistants \cup {None} :
            UpdateCmd(m, a)

LongProjectGone ==
    /\ steps < MaxLongSteps
    /\ \E p \in ProjectPaths : DeleteProject(p)

NextLong == LongInstall \/ LongUpdate \/ LongProjectGone

SpecLong == Init /\ [][NextLong]_vars

(* The naming scheme alone: a module name and an item name are prefixed as  *)
(* install does and stripped as update does.  last.out holds the item name, *)
(* then the generated name, then the stripped one.                          *)

NamingModules == {"a", "a-b", "ab", "a-", "-", "b-a"}

NamingItems == {"s", "a-s", "b-s", "-s", "a", "b", "a-a-s", "s-a-", "b-a-s"}

InitNaming ==
    /\ modules = [m \in ModuleNames |-> FullModule]
    /\ projects = ProjectPaths
    /\ local = {}
    /\ disk = {}
    /\ registry = <<>>
    /\ steps = 0
    /\ market = NoMarket
    /\ procs = NoProcs
    /\ fs = NoFs
    /\ \E m \in NamingModules, i \in NamingItems :
          last = [NoLast EXCEPT !.cmd = "name", !.module = m, !.out = <<i>>]

\* install: prefixed_name = f"{module.name}-{skill_name}"
NamePrefix ==
    /\ last.cmd = "name"
    /\ last' = [last EXCEPT !.cmd = "prefixed",
                            !.out = Append(@, PrefixedName(last.module, @[1]))]
    /\ UNCHANGED <<modules, projects, local, disk, registry, steps, market,
                   procs, fs>>

\* update: original_skill from the recorded name
NameStrip ==
    /\ last.cmd = "prefixed"
    /\ last' = [last EXCEPT !.cmd = "stripped",
                            !.out = Append(@, OriginalSkill(last.module, @[2]))]
    /\ UNCHANGED <<modules, projects, local, disk, registry, steps, market,
                   procs, fs>>

NextNaming == NamePrefix \/ NameStrip

SpecNaming == InitNaming /\ [][NextNaming]_vars

(* Two modules in the store whose names and item names contain "-" *)

\* commands in one behaviour of the two-module runs
MaxCollideSteps == 2

CollideModules ==
    [m \in {"a", "a-b"} |->
        IF m = "a"
        THEN [status |-> "ok", skills |-> <<"b-s1">>, commands |-> <<"b-c1">>,
              srcSkills |-> {"b-s1"}, srcCmds |-> {"b-c1"}]
        ELSE [status |-> "ok", skills |-> <<"s1">>, commands |-> <<"c1">>,
              srcSkills |-> {"s1"}, srcCmds |-> {"c1"}]]

InitCollide ==
    /\ modules = CollideModules
    /\ projects = ProjectPaths
    /\ local = {}
    /\ disk = {}
    /\ registry = <<>>
    /\ last = NoLast
    /\ steps = 0
    /\ market = NoMarket
    /\ procs = NoProcs
    /\ fs = NoFs

CollideInstall ==
    /\ steps < MaxCollideSteps
    /\ \E m \in DOMAIN modules, a \in Assistants \cup {None}, s \in Scopes,
          p \in ProjectPaths \cup {None} : InstallCmd(m, a, s, p)

CollideUninstall ==
    /\ steps < MaxCollideSteps
    /\ \E m \in DOMAIN modules, a \in Assistants \cup {None},
          s \in Scopes \cup {None}, p \in ProjectPaths \cup {None},
          force \in BOOLEAN, confirm \in BOOLEAN :
            UninstallCmd(m, a, s, p, force, confirm)

NextCollide == CollideInstall \/ CollideUninstall

SpecCollide == InitCollide /\ [][NextCollide]_vars

(* Install, loss of generated files, uninstall *)

\* commands and deletions in one behaviour of these runs
MaxLostSteps == 4

LostInstall ==
    /\ steps < MaxLostSteps
    /\ \E m \in DOMAIN modules, a \in Assistants \cup {None} :
          \/ InstallCmd(m, a, "user", None)
          \/ \E p \in ProjectPaths : InstallCmd(m, a, "project", p)

LostFile ==
    /\ steps < MaxLostSteps
    /\ \/ \E d \in disk : DeleteArtifact(d)
       \/ \E c \in local : DeleteLocalCopy(c)

LostProject ==
    /\ steps < MaxLostSteps
    /\ \E p \in ProjectPaths : DeleteProject(p)

LostUninstall ==
    /\ steps < MaxLostSteps
    /\ \E m \in DOMAIN modules, a \in Assistants \cup {None},
          force \in BOOLEAN : UninstallCmd(m, a, None, None, force, TRUE)

NextLost == LostInstall \/ LostFile \/ LostProject \/ LostUninstall

SpecLost == Init /\ [][NextLost]_vars

(* The home directory given as the project path *)

\* commands in one behaviour of these runs
MaxHomeSteps == 3

InitHome ==
    /\ modules = [m \in ModuleNames |-> FullModule]
    /\ projects = ProjectPaths \cup {HomeDir}
    /\ local = {}
    /\ disk = {}
    /\ registry = <<>>
    /\ last = NoLast
    /\ steps = 0
    /\ market = NoMarket
    /\ procs = NoProcs
    /\ fs = NoFs

HomeInstall ==
    /\ steps < MaxHomeSteps
    /\ \E m \in DOMAIN modules, a \in Assistants \cup {None}, s \in Scopes,
          p \in {HomeDir, None} : InstallCmd(m, a, s, p)

HomeUninstall ==
    /\ steps < MaxHomeSteps
    /\ \E m \in DOMAIN modules, a \in Assistants \cup {None},
          s \in Scopes \cup {None}, p \in {HomeDir, None},
          force \in BOOLEAN, confirm \in BOOLEAN :
            UninstallCmd(m, a, s, p, force, confirm)

HomeUpdate ==
    /\ steps < MaxHomeSteps
    /\ \E m \in DOMAIN modules \cup {None}, a \in Assistants \cup {None} :
            UpdateCmd(m, a)

NextHome == HomeInstall \/ HomeUninstall \/ HomeUpdate

SpecHome == InitHome /\ [][NextHome]_vars

(* Two modules with the same skills installed into one project *)

\* commands and edits in one behaviour of these runs
MaxSharedSteps == 5

SharedModules == {"a", "b"}

SharedAssistants == {"gemini-cli", "claude-code"}

InitShared ==
    /\ modules = [m \in SharedModules |-> FullModule]
    /\ projects = ProjectPaths
    /\ local = {}
    /\ disk = {}
    /\ registry = <<>>
    /\ last = NoLast
    /\ steps = 0
    /\ market = NoMarket
    /\ procs = NoProcs
    /\ fs = NoFs

SharedInstall ==
    /\ steps < MaxSharedSteps
    /\ \E m \in DOMAIN modules, a \in SharedAssistants, p \in ProjectPaths :
          InstallCmd(m, a, "project", p)

SharedUninstall ==
    /\ steps < MaxSharedSteps
    /\ \E m \in DOMAIN modules, a \in SharedAssistants \cup {None},
          force \in BOOLEAN : UninstallCmd(m, a, None, None, force, TRUE)

SharedUpdate ==
    /\ steps < MaxSharedSteps
    /\ \E m \in DOMAIN modules \cup {None}, a \in SharedAssistants \cup {None} :
          UpdateCmd(m, a)

SharedList ==
    /\ steps < MaxSharedSteps
    /\ \E a \in Assistants \cup {None} : ListInstalledCmd(a)

SharedEdit ==
    /\ steps < MaxSharedSteps
    /\ \E m \in DOMAIN modules, x \in SkillNames : LoseSource(m, x)

NextShared ==
    SharedInstall \/ SharedUninstall \/ SharedUpdate \/ SharedList \/ SharedEdit

SpecShared == InitShared /\ [][NextShared]_vars

(* Two invocations at the grain of their registry calls *)

ProcIds == {1, 2}

IdleProc ==
    [pc |-> "idle", kind |-> None, module |-> None, scope |-> None,
     project_path |-> None, todo |-> <<>>, mem |-> <<>>, read |-> <<>>,
     saved |-> <<>>, added |-> {}]

\* where installs of these runs go
ProcTargets == {[scope |-> "user", project_path |-> None],
                [scope |-> "project", project_path |-> "/p1"]}

InitProcs ==
    /\ modules = [m \in ModuleNames |-> FullModule]
    /\ projects = ProjectPaths
    /\ local = {}
    /\ disk = {}
    /\ registry = <<>>
    /\ last = NoLast
    /\ steps = 0
    /\ market = NoMarket
    /\ procs = [NoProcs EXCEPT !.run = [p \in ProcIds |-> IdleProc]]
    /\ fs = NoFs

SaveOutcomes_Torn(old, new, interrupted) ==
    IF interrupted
    THEN {old, new} \cup {SubSeq(new, 1, k) : k \in 0..(Len(new) - 1)}
    ELSE {new}

\* what the file holds after a save of `new` over `old`: the whole new
\* content, or, when the process is interrupted in the call, the whole old
\* or the whole new content
SaveOutcomes(old, new, interrupted) ==
    IF interrupted THEN {old, new} ELSE {new}

\* the invocation sees the files as they are and the registry as it read it
ProcStart(p) == [Start EXCEPT !.reg = procs.run[p].mem]

ProcDone(l) ==
    /\ last' = [NoLast EXCEPT !.cmd = l]
    /\ UNCHANGED <<modules, projects, steps, market, fs>>

\* install_cmd up to get_registry(), with its preconditions met
ProcBeginInstall(p, module_name, assistant, target) ==
    /\ procs.run[p].pc = "idle"
    /\ InstallPrecondition(module_name, target.scope, target.project_path) = None
    /\ procs' = [procs EXCEPT !.run[p] =
                    [IdleProc EXCEPT !.pc = "running", !.kind = "install",
                                     !.module = module_name,
                                     !.scope = target.scope,
                                     !.project_path = target.project_path,
                                     !.todo = AssistantsToInstall(assistant),
                                     !.mem = registry, !.read = registry]]
    /\ ProcDone("begin")
    /\ UNCHANGED <<registry, disk, local>>

\* uninstall_cmd up to registry.find(module_name), with records found
ProcBeginUninstall(p, module_name) ==
    /\ procs.run[p].pc = "idle"
    /\ RegistryFind(registry, module_name) # <<>>
    /\ procs' = [procs EXCEPT !.run[p] =
                    [IdleProc EXCEPT !.pc = "running", !.kind = "uninstall",
                                     !.module = module_name,
                                     !.todo = RegistryFind(registry, module_name),
                                     !.mem = registry, !.read = registry]]
    /\ ProcDone("begin")
    /\ UNCHANGED <<registry, disk, local>>

\* one turn of the command's loop: install_to_assistant for the next
\* assistant, or the loop body of uninstall for the next record
ProcTurn(p) ==
    LET r == procs.run[p]
    IN  IF r.kind = "install"
        THEN InstallToAssistant(ProcStart(p), r.module, modules[r.module],
                                Head(r.todo), r.scope, r.project_path)
        ELSE UninstallOne(ProcStart(p), r.module, Head(r.todo))

\* the turn made a mutating call of the registry
Mutates(st) == \E i \in 1..Len(st.log) : st.log[i].op = "write"

\* the turn runs to its end (interrupted = FALSE) or the process is killed
\* inside the registry call of the turn
ProcRun(p, interrupted) ==
    LET r == procs.run[p]
        st == ProcTurn(p)
    IN  /\ r.pc = "running"
        /\ r.todo # <<>>
        /\ interrupted => Mutates(st)
        /\ disk' = st.disk
        /\ local' = st.local
        /\ IF Mutates(st)
           THEN \E file \in SaveOutcomes(registry, st.reg, interrupted) :
                   /\ registry' = file
                   /\ procs' = [procs EXCEPT
                         !.attempt = [old |-> registry, new |-> st.reg],
                         !.complete = @ \cup {st.reg},
                         !.writer = IF file = st.reg /\ (~interrupted \/ file # registry)
                                    THEN p ELSE @,
                         !.run[p].pc = IF interrupted THEN "dead" ELSE "running",
                         !.run[p].todo = Tail(@),
                         !.run[p].mem = st.reg,
                         !.run[p].saved = IF file = st.reg /\ (~interrupted \/ file # registry)
                                          THEN st.reg ELSE @,
                         !.run[p].added = @ \cup st.added]
           ELSE /\ registry' = registry
                /\ procs' = [procs EXCEPT !.run[p].todo = Tail(@),
                                          !.run[p].mem = st.reg]

ProcCall(p) == ProcRun(p, FALSE) /\ ProcDone("call")

ProcCrashInCall(p) == ProcRun(p, TRUE) /\ ProcDone("crash")

\* the process is killed between two turns
ProcKill(p) ==
    /\ procs.run[p].pc = "running"
    /\ procs' = [procs EXCEPT !.run[p].pc = "dead"]
    /\ ProcDone("kill")
    /\ UNCHANGED <<registry, disk, local>>

\* the loop is over and the command ends
ProcEnd(p) ==
    /\ procs.run[p].pc = "running"
    /\ procs.run[p].todo = <<>>
    /\ procs' = [procs EXCEPT !.run[p].pc = "done"]
    /\ ProcDone("end")
    /\ UNCHANGED <<registry, disk, local>>

BeginInstall ==
    \E p \in ProcIds, m \in DOMAIN modules, a \in Assistants \cup {None},
       t \in ProcTargets : ProcBeginInstall(p, m, a, t)

BeginUninstall ==
    \E p \in ProcIds, m \in DOMAIN modules : ProcBeginUninstall(p, m)

Call == \E p \in ProcIds : ProcCall(p)

CrashInCall == \E p \in ProcIds : ProcCrashInCall(p)

Kill == \E p \in ProcIds : ProcKill(p)

End == \E p \in ProcIds : ProcEnd(p)

NextProcs == BeginInstall \/ BeginUninstall \/ Call \/ CrashInCall \/ Kill \/ End

SpecProcs == InitProcs /\ [][NextProcs]_vars

(* The marketplace directory and its searches *)

InitMarket ==
    /\ modules = [m \in ModuleNames |-> FullModule]
    /\ projects = ProjectPaths
    /\ local = {}
    /\ disk = {}
    /\ registry = <<>>
    /\ last = NoLast
    /\ steps = 0
    /\ procs = NoProcs
    /\ fs = NoFs
    /\ \E names \in SUBSET MarketNames, cache \in SUBSET MarketNames :
          \E refs \in RefsOver(names) :
              market = [NoMarket EXCEPT !.refs = refs, !.cache = cache,
                                        !.before = cache]

MarketDone ==
    UNCHANGED <<modules, projects, local, disk, registry, last, steps, procs,
                fs>>

\* a call of get_enabled_marketplaces(market_dir, cache_dir); a behaviour is
\* one call on one state of the two directories
GetEnabled ==
    /\ market.pc = "idle"
    /\ market' = [market EXCEPT
                     !.before = market.cache,
                     !.enabled = GetEnabledMarketplaces(market.refs, market.cache,
                                                        Catalogs),
                     !.results = <<>>, !.query = "", !.input = <<>>,
                     !.pc = "enabled"]
    /\ MarketDone

\* a call of search_market(query, market_dir, cache_dir)
Search ==
    /\ market.pc = "idle"
    /\ \E query \in Queries :
          market' = [market EXCEPT
                        !.before = market.cache,
                        !.query = query,
                        !.results = SearchMarket(query, market.refs, market.cache,
                                                 Catalogs),
                        !.enabled = <<>>, !.input = <<>>,
                        !.pc = "searched"]
    /\ MarketDone

\* a call of format_search_result(module, marketplace_name)
Format ==
    /\ market.pc = "idle"
    /\ \E n \in 0..MaxDescLen, has \in SUBSET {"description", "version"},
          marketplace_name \in {r.name : r \in SeqToSet(market.refs)} :
          LET module == [name |-> "mod", description |-> Filler(n),
                         tags |-> <<>>, version |-> "1.0.0",
                         has |-> has \cup {"name"}]
          IN  market' = [market EXCEPT
                            !.before = market.cache,
                            !.input = <<module>>,
                            !.results = <<FormatSearchResult(module,
                                                             marketplace_name)>>,
                            !.enabled = <<>>, !.query = "",
                            !.pc = "formatted"]
    /\ MarketDone

NextMarket == GetEnabled \/ Search \/ Format

SpecMarket == InitMarket /\ [][NextMarket]_vars

(* A registry file with records this install did not write: skills under  *)
(* unprefixed names, a project-scope record without project path           *)

\* commands and edits in one behaviour of these runs
MaxLegacySteps == 3

LegacyModule ==
    [status |-> "ok", skills |-> <<"s1", "s2", "a-s1">>, commands |-> <<"c1">>,
     srcSkills |-> {"s1", "s2", "a-s1"}, srcCmds |-> {"c1"}]

LegacyRecords ==
    {Installation("a", "claude-code", "user", None,
                  <<"s1", "a-s2", "a-a-s1">>, <<"c1">>),
     Installation("a", "cursor", "project", "/p1", <<"s1", "a-s1">>, <<>>),
     Installation("a", "claude-code", "project", None, <<"a-s1">>, <<"c1">>),
     Installation("a", "gemini-cli", "project", "/p1", <<"s2">>, <<"c1">>)}

\* the files an install wrote for the record
FilesOf(inst, mod) ==
    LET skill_dest == GetAssistantSkillPath(inst.assistant, inst.scope,
                                            inst.project_path)
        command_dest == GetAssistantCommandPath(inst.assistant, inst.scope,
                                                inst.project_path)
    IN  (IF skill_dest # ValueError
         THEN UpdateSkillFiles(inst, mod, skill_dest) ELSE {})
        \cup (IF command_dest # ValueError /\ inst.project_path \in projects \cup {None}
                 /\ ~(inst.scope = "project" /\ inst.project_path = None)
              THEN UpdateCommandFiles(inst, mod, command_dest) ELSE {})

InitLegacy ==
    /\ modules = [m \in ModuleNames |-> LegacyModule]
    /\ projects = ProjectPaths
    /\ \E n \in 1..2 :
          \E reg \in [1..n -> LegacyRecords] :
              /\ \A i, j \in 1..n : reg[i] = reg[j] => i = j
              /\ registry = reg
              /\ disk = UNION {FilesOf(reg[i], LegacyModule) : i \in 1..n}
              /\ local = UNION {LocalCopyOf("a", reg[i]) : i \in 1..n}
    /\ last = NoLast
    /\ steps = 0
    /\ market = NoMarket
    /\ procs = NoProcs
    /\ fs = NoFs

LegacyUpdate ==
    /\ steps < MaxLegacySteps
    /\ \E m \in DOMAIN modules \cup {None}, a \in Assistants \cup {None} :
          UpdateCmd(m, a)

LegacyEdit ==
    /\ steps < MaxLegacySteps
    /\ \E m \in DOMAIN modules, x \in {"s1", "s2", "a-s1", "c1"} : LoseSource(m, x)

LegacyFile ==
    /\ steps < MaxLegacySteps
    /\ \E d \in disk : DeleteArtifact(d)

NextLegacy == LegacyUpdate \/ LegacyEdit \/ LegacyFile

SpecLegacy == InitLegacy /\ [][NextLegacy]_vars

(* core/installer.py: copy_module_to_local on the files *)

\* the projects whose .lola/modules the module is copied to
CopyPlaces == {"/p1", "/p2"}

\* the contents the module in the store goes through
StoreVersions == {1, 2}

Absent == [kind |-> "none"]

Dir(content) == [kind |-> "dir", content |-> content]

\* a symbolic link: to the module in the store ("module"), to a directory
\* somewhere else ("elsewhere"), or to nothing ("gone")
Link(target) == [kind |-> "link", target |-> target]

\* what can stand at <local_modules_path>/<name>
Entries ==
    {Absent} \cup {Dir(c) : c \in StoreVersions}
        \cup {Link(t) : t \in {"module", "elsewhere", "gone"}}

\* the path local_modules_path / module.name leads into the store: the local
\* modules directory is the store or a link to it
InStore(f, local_modules_path) ==
    local_modules_path = "MODULES_DIR" \/ f.parent[local_modules_path] = "store"

SameAsSource_Unresolved(f, local_modules_path) ==
    local_modules_path = "MODULES_DIR"

\* dest.resolve() == module.path.resolve()
SameAsSource(f, local_modules_path) ==
    \/ InStore(f, local_modules_path)
    \/ f.dest[local_modules_path] = Link("module")

\* dest.is_symlink()
IsSymlink(f, local_modules_path) ==
    ~InStore(f, local_modules_path) /\ f.dest[local_modules_path].kind = "link"

\* dest.exists(): follows links
Exists(f, local_modules_path) ==
    IF InStore(f, local_modules_path) THEN f.store # 0
    ELSE \/ f.dest[local_modules_path].kind = "dir"
         \/ f.dest[local_modules_path] = Link("elsewhere")
         \/ f.dest[local_modules_path] = Link("module") /\ f.store # 0

\* local_modules_path.mkdir(parents=True, exist_ok=True)
Mkdir(f, local_modules_path) ==
    IF f.parent[local_modules_path] = "none"
    THEN [f EXCEPT !.parent[local_modules_path] = "dir"]
    ELSE f

\* dest.unlink(): removes the link, not what it points to
Unlink(f, local_modules_path) ==
    [f EXCEPT !.dest[local_modules_path] = Absent]

\* shutil.rmtree(dest): removes the directory the path leads to
RmTree(f, local_modules_path) ==
    IF InStore(f, local_modules_path)
    THEN [f EXCEPT !.store = 0]
    ELSE [f EXCEPT !.dest[local_modules_path] = Absent]

\* shutil.copytree(module.path, dest): raises when the source is not there or
\* the destination exists
CopyTree(f, local_modules_path) ==
    IF f.store = 0 \/ Exists(f, local_modules_path) THEN f
    ELSE [f EXCEPT !.dest[local_modules_path] = Dir(f.store)]

\* copy_module_to_local
CopyToLocal(f, local_modules_path) ==
    IF SameAsSource(f, local_modules_path) THEN f
    ELSE LET made == Mkdir(f, local_modules_path)
             cleared == IF IsSymlink(made, local_modules_path)
                           \/ Exists(made, local_modules_path)
                        THEN IF IsSymlink(made, local_modules_path)
                             THEN Unlink(made, local_modules_path)
                             ELSE RmTree(made, local_modules_path)
                        ELSE made
         IN  CopyTree(cleared, local_modules_path)

InitCopy ==
    /\ modules = [m \in ModuleNames |-> FullModule]
    /\ projects = ProjectPaths
    /\ local = {}
    /\ disk = {}
    /\ registry = <<>>
    /\ last = NoLast
    /\ steps = 0
    /\ market = NoMarket
    /\ procs = NoProcs
    /\ fs = [store |-> 1, parent |-> [p \in CopyPlaces |-> "none"],
             dest |-> [p \in CopyPlaces |-> Absent]]

CopyDone(l) ==
    /\ last' = l
    /\ UNCHANGED <<modules, projects, local, disk, registry, steps, market,
                   procs>>

\* install_to_assistant and update_cmd call copy_module_to_local for a module
\* that is in the store
CopyCall ==
    \E p \in CopyPlaces \cup {"MODULES_DIR"} :
        /\ fs.store # 0
        /\ fs' = CopyToLocal(fs, p)
        /\ CopyDone([NoLast EXCEPT !.cmd = "copy", !.project_path = p,
                                   !.out = IF p \in CopyPlaces
                                           THEN <<fs.dest[p]>> ELSE <<>>])

\* the module in the store gets another content
EditStoreModule ==
    \E c \in StoreVersions :
        /\ fs.store \notin {0, c}
        /\ fs' = [fs EXCEPT !.store = c]
        /\ CopyDone([NoLast EXCEPT !.cmd = "edit"])

\* the user rearranges a project: the local modules directory is removed,
\* made, or linked to the store, and a directory or a link is put under the
\* module's name
Relink ==
    \E p \in CopyPlaces, d \in {"none", "dir", "store"}, e \in Entries :
        /\ d # "dir" => e = Absent
        /\ e.kind = "dir" => e.content # fs.store
        /\ fs' = [fs EXCEPT !.parent[p] = d, !.dest[p] = e]
        /\ fs' # fs
        /\ CopyDone([NoLast EXCEPT !.cmd = "relink", !.project_path = p])

NextCopy == CopyCall \/ EditStoreModule \/ Relink

SpecCopy == InitCopy /\ [][NextCopy]_vars

(* Installs that are killed before they end *)

\* commands and edits in one behaviour of these runs
MaxKillSteps == 2

\* the most writes a call makes before it records
MaxWrites == 3

InitKill == Init

KillInstall ==
    /\ steps < MaxKillSteps
    /\ \E m \in DOMAIN modules, a \in Assistants \cup {None}, s \in Scopes,
          p \in ProjectPaths, j \in 1..Len(AssistantOrder), k \in 0..MaxWrites :
          InstallKilledCmd(m, a, s, IF s = "project" THEN p ELSE None, j, k)

KillWholeInstall ==
    /\ steps < MaxKillSteps
    /\ \E m \in DOMAIN modules, a \in Assistants \cup {None}, s \in Scopes,
          p \in ProjectPaths :
          InstallCmd(m, a, s, IF s = "project" THEN p ELSE None)

KillEdit ==
    /\ steps < MaxKillSteps
    /\ \E m \in DOMAIN modules, x \in SkillNames \cup CommandNames : LoseSource(m, x)

NextKill == KillInstall \/ KillWholeInstall \/ KillEdit

SpecKill == InitKill /\ [][NextKill]_vars

-----------------------------------------------------------------------------
(* Properties *)

Records == SeqToSet(registry)

\* C1: the registry holds at most one record per tuple (module_name,
\* assistant, scope, project_path); an install for a tuple that already has a
\* record replaces it.
C1_OneRecordPerTuple ==
    \A i, j \in 1..Len(registry) :
        SameTuple(registry[i], registry[j].module_name, registry[j].assistant,
                  registry[j].scope, registry[j].project_path) => i = j

\* an install has just replaced the record its tuple had
C1_Witness ==
    /\ last.cmd = "install"
    /\ last.replaced # {}
    /\ \A r \in last.added : r \in Records

\* C2: no record has both an empty skills list and an empty commands list;
\* an install to an assistant that installs nothing adds no record.
C2_NoEmptyRecord ==
    /\ \A r \in Records : r.skills # <<>> \/ r.commands # <<>>
    /\ last.cmd = "install" =>
          \A r \in last.added : r.skills # <<>> \/ r.commands # <<>>

\* an install went through install_to_assistant and installed nothing
C2_Witness ==
    /\ last.cmd = "install"
    /\ last.summary = 1
    /\ last.count = 0
    /\ last.added = {}
    /\ registry = <<>>

\* C3: every record that install persists has project_path non-null if and
\* only if its scope is project.
C3_ProjectPathIffProjectScope ==
    \A r \in Records : (r.project_path # None) <=> (r.scope = "project")

\* where the artifacts of a record live: get_assistant_skill_path's root
RootOf(r) == IF r.scope = "project" THEN r.project_path ELSE HomeDir

\* the record names the artifact
Names(r, d) ==
    /\ r.module_name = d.module
    /\ r.assistant = d.assistant
    /\ RootOf(r) = d.root
    /\ IF d.kind = "section"
       THEN PrefixedName(r.module_name, d.name) \in SeqToSet(r.skills)
       ELSE IF d.kind = "skill"
       THEN \E n \in SeqToSet(r.skills) :
               d.name = IF r.assistant = "cursor" THEN n \o ".mdc" ELSE n
       ELSE \E c \in SeqToSet(r.commands) :
               d.name = GetCommandFilename(r.assistant, r.module_name, c)

\* C4: every skill or command artifact that the engine wrote and has not
\* removed is named in the live registry record of its target.
C4_EveryArtifactIsRecorded ==
    \A d \in disk : \E r \in Records : Names(r, d)

OnDisk(d) == \E e \in disk : SameFile(d, e)

\* C5: install followed immediately by uninstall of the module (all its
\* records, the uninstall not cancelled) leaves no registry record of the
\* module and none of the artifacts the install generated; when exactly one
\* record matches, no confirmation is asked for.
C5_InstallThenUninstall ==
    (last.cmd = "uninstall" /\ last.afterInstall /\ last.all) =>
        /\ Len(last.matched) = 1 => ~last.prompted
        /\ last.error = None =>
              /\ RegistryFind(registry, last.module) = <<>>
              /\ \A d \in last.installed : ~OnDisk(d)

\* an uninstall has just removed what the install before it wrote
C5_Witness ==
    /\ last.cmd = "uninstall"
    /\ last.afterInstall
    /\ last.all
    /\ last.error = None
    /\ Cardinality(last.installed) >= 2
    /\ last.removed = last.installed

\* what list (without a filter) shows for one tuple: the records it prints
\* under the module's name, with their skills and commands lines
ListShown(module_name, assistant, scope, project_path) ==
    LET groups == ListGroups(ListMatches(registry, None))
    IN  {r \in UNION {SeqToSet(groups[g].insts) :
                         g \in {h \in 1..Len(groups) :
                                   groups[h].module = module_name}} :
            SameTuple(r, module_name, assistant, scope, project_path)}

\* the items of the last install whose write returned success for the
\* assistant, in the module's order
Succeeded(assistant, kind, items) ==
    LET Ok(x) == Item(assistant, kind, x) \in last.ok
    IN  SelectSeq(items, Ok)

PrefixedNames(module_name, items) ==
    [i \in 1..Len(items) |-> PrefixedName(module_name, items[i])]

\* C6 as stated: after install, list shows for every assistant exactly the
\* items whose write returned success, each under the prefixed name M-item.
C6_ListShowsPrefixedSuccesses ==
    (last.cmd = "install" /\ last.summary > 0) =>
        \A a \in SeqToSet(AssistantsToInstall(last.assistant)) :
            LET okS == Succeeded(a, "skill", modules[last.module].skills)
                okC == Succeeded(a, "command", modules[last.module].commands)
                shown == ListShown(last.module, a, last.scope, last.project_path)
            IN  IF okS = <<>> /\ okC = <<>>
                THEN shown = {}
                ELSE shown = {Installation(last.module, a, last.scope,
                                  last.project_path,
                                  PrefixedNames(last.module, okS),
                                  PrefixedNames(last.module, okC))}

\* C6 amended: for every assistant with at least one successful write, list
\* shows exactly the successful items, skills under the prefixed name and
\* commands under their raw name; for an assistant with none the install adds
\* nothing to what list shows.
C6_ListShowsSuccesses ==
    (last.cmd = "install" /\ last.summary > 0) =>
        \A a \in SeqToSet(AssistantsToInstall(last.assistant)) :
            LET okS == Succeeded(a, "skill", modules[last.module].skills)
                okC == Succeeded(a, "command", modules[last.module].commands)
                shown == ListShown(last.module, a, last.scope, last.project_path)
            IN  IF okS = <<>> /\ okC = <<>>
                THEN shown \cap last.added = {}
                ELSE shown = {Installation(last.module, a, last.scope,
                                  last.project_path,
                                  PrefixedNames(last.module, okS), okC)}

\* an install to gemini-cli with one skill written and one write failed
C6_Witness ==
    /\ last.cmd = "install"
    /\ \E x \in last.failed : x.assistant = "gemini-cli"
    /\ \E x \in last.ok : x.assistant = "gemini-cli" /\ x.kind = "skill"
    /\ \E x \in last.ok : x.assistant = "gemini-cli" /\ x.kind = "command"

\* C7: update leaves the registry as it is, every record with the same names
\* in the same order (whether or not the module's item list changed).
C7_UpdateKeepsRegistry ==
    [][last'.cmd = "update" => registry' = registry]_vars

\* an update has regenerated the artifacts of two records
C7_Witness ==
    /\ last.cmd = "update"
    /\ Len(last.processed) >= 2
    /\ last.wrote # {}

\* C8: update reports a project-scope record whose project_path is gone as
\* stale, writes nothing for it, leaves it in the registry, and still
\* processes the other records.
C8_StaleRecordsAreSkipped ==
    [][last'.cmd = "update" =>
        \A k \in 1..Len(last'.matched) :
            LET inst == last'.matched[k]
            IN  IF IsStale(inst, projects)
                THEN /\ inst \in SeqToSet(last'.stale)
                     /\ \A d \in last'.wrote : d.root # inst.project_path
                     /\ inst \notin SeqToSet(last'.processed)
                     /\ inst \in SeqToSet(registry')
                ELSE modules[inst.module_name].status = "ok" =>
                        inst \in SeqToSet(last'.processed)]_vars

\* the lists update would store if it recomputed the record from the module
CurrentSkills(inst) ==
    LET mod == modules[inst.module_name]
        Found(x) == x \in mod.srcSkills
    IN  IF SkillsSkipped(inst.assistant, inst.scope) THEN <<>>
        ELSE PrefixedNames(inst.module_name, SelectSeq(mod.skills, Found))

CurrentCommands(inst) ==
    LET mod == modules[inst.module_name]
        Found(x) == x \in mod.srcCmds
    IN  SelectSeq(mod.commands, Found)

\* C9: after update the lists of every record it processed are the names of
\* the module's current items whose writes succeed.
C9_UpdateRecomputesRecords ==
    last.cmd = "update" =>
        \A inst \in SeqToSet(last.processed) :
            \E r \in Records :
                /\ SameTuple(r, inst.module_name, inst.assistant, inst.scope,
                             inst.project_path)
                /\ r.skills = CurrentSkills(inst)
                /\ r.commands = CurrentCommands(inst)

\* C10: the record stored after update no longer contains an item that update
\* reported as missing.
C10_MissingItemLeavesRecord ==
    last.cmd = "update" =>
        \A f \in last.failed : \A r \in Records :
            (/\ f.kind \in {"skill", "command"}
             /\ SameTuple(r, f.inst.module_name, f.inst.assistant, f.inst.scope,
                          f.inst.project_path))
            => f.name \notin SeqToSet(IF f.kind = "skill" THEN r.skills
                                       ELSE r.commands)

\* C11: an uninstall that matches more than one record without force asks
\* for confirmation, and a declined confirmation removes no artifact, no local
\* copy and no record; an uninstall that matches exactly one record, or is
\* forced, does not ask and goes on to remove.
C11_ConfirmBeforeRemoving ==
    [][(last'.cmd = "uninstall" /\ last'.matched # <<>>) =>
          /\ last'.prompted = (Len(last'.matched) > 1 /\ ~last'.force)
          /\ (last'.error = "cancelled" =>
                 /\ last'.prompted
                 /\ registry' = registry
                 /\ disk' = disk
                 /\ local' = local
                 /\ last'.removed = {})
          /\ (~last'.prompted =>
                 /\ last'.error = None
                 /\ \A r \in SeqToSet(last'.matched) :
                        r \notin SeqToSet(registry'))]_vars

\* a declined confirmation with two or more records matched and artifacts on
\* disk
C11_Witness ==
    /\ last.cmd = "uninstall"
    /\ last.error = "cancelled"
    /\ Len(last.matched) > 1
    /\ disk # {}

\* the assistants that take no skill at user scope
NoUserSkills == {"gemini-cli", "cursor"}

\* C12: no record of gemini-cli or cursor at user scope lists a skill and no
\* skill of theirs is written under the home directory by a user-scope
\* install; such an install still writes and records every command of the
\* module whose source is there, and for a module without commands it reports
\* no item and stores no record for that assistant.
C12_NoUserScopeSkills ==
    /\ \A r \in Records :
          (r.assistant \in NoUserSkills /\ r.scope = "user") => r.skills = <<>>
    /\ (last.cmd = "install" /\ last.summary > 0 /\ last.scope = "user") =>
          \A a \in SeqToSet(AssistantsToInstall(last.assistant)) \cap NoUserSkills :
              LET mod == modules[last.module]
                  dest == GetAssistantCommandPath(a, "user", last.project_path)
              IN  /\ \A x \in last.ok : x.assistant = a => x.kind = "command"
                  /\ \A d \in last.wrote : d.assistant = a => d.kind = "command"
                  /\ \A c \in SeqToSet(mod.commands) \cap mod.srcCmds :
                        /\ Item(a, "command", c) \in last.ok
                        /\ CommandArtifact(a, dest, last.module, c) \in disk
                        /\ \E r \in Records :
                              /\ SameTuple(r, last.module, a, "user",
                                           last.project_path)
                              /\ c \in SeqToSet(r.commands)
                  /\ mod.commands = <<>> =>
                        /\ \A x \in last.ok : x.assistant # a
                        /\ \A r \in last.added : r.assistant # a
                        /\ \A x \in last.returned :
                              x.assistant = a => x.count = 0

\* a user-scope install to gemini-cli of a module with skills: the command is
\* installed
C12_Witness ==
    /\ last.cmd = "install"
    /\ last.scope = "user"
    /\ last.assistant = "gemini-cli"
    /\ modules[last.module].skills # <<>>
    /\ Item("gemini-cli", "command", "c1") \in last.ok

\* C13: an install given project scope without a project path, or with a
\* project path that does not exist, or a module that is absent from the
\* store, has no manifest or fails validate(), exits non-zero and changes
\* nothing: not the registry, not an artifact, not a project-local copy, not a
\* project directory.
C13_FailedPreconditionHasNoEffect ==
    [][(/\ last'.cmd = "install"
        /\ \/ (last'.scope = "project" /\ last'.project_path = None)
           \/ (last'.scope = "project" /\ last'.project_path \notin projects)
           \/ modules[last'.module].status \in Statuses) =>
          /\ last'.exit # 0
          /\ registry' = registry
          /\ disk' = disk
          /\ local' = local
          /\ projects' = projects
          /\ last'.wrote = {}
          /\ last'.copied = {}]_vars

\* a project-scope install into a project directory that was deleted, with
\* records in the registry
C13_Witness ==
    /\ last.cmd = "install"
    /\ last.exit = 1
    /\ last.error = "project path does not exist"
    /\ registry # <<>>

\* the module is absent from the store, has no manifest or does not validate
ModuleBroken(module_name) == modules[module_name].status \in Statuses

\* C14: an install or an update that meets a module that is absent from the
\* global store or whose manifest is invalid exits non-zero, and a command
\* that meets no precondition error exits zero.
C14_PreconditionErrorsExitNonZero ==
    /\ (last.cmd = "install" /\ ModuleBroken(last.module)) => last.exit # 0
    /\ (last.cmd = "update" /\ \E x \in last.failed : x.kind = "module") =>
          last.exit # 0
    /\ (last.cmd = "install" /\ last.exit # 0) =>
          last.error \in {"project path required", "project path does not exist",
                          "module not found", "invalid module",
                          "validation errors"}
    /\ last.cmd \in {"uninstall", "list"} => last.exit = 0

\* exactly one report, installed or failed, of the item for the assistant
AttemptedOnce(assistant, kind, name) ==
    (Item(assistant, kind, name) \in last.ok) #
        (Item(assistant, kind, name) \in last.failed)

\* C15: an install that passed its preconditions ends with exit 0; for each
\* assistant it was given (all three when none was selected) every command of
\* the module is reported exactly once, installed or failed, and so is every
\* skill unless the assistant takes no skills at that scope, whatever
\* happened to earlier items and earlier assistants.
C15_PartialFailureNeverAborts ==
    (last.cmd = "install" /\ last.summary > 0) =>
        /\ last.exit = 0
        /\ last.assistant = None =>
              \A a \in Assistants : \E x \in last.returned : x.assistant = a
        /\ \A a \in (IF last.assistant = None THEN Assistants
                      ELSE {last.assistant}) :
              LET mod == modules[last.module]
              IN  /\ \A c \in SeqToSet(mod.commands) :
                        AttemptedOnce(a, "command", c)
                  /\ ~SkillsSkipped(a, last.scope) =>
                        \A k \in SeqToSet(mod.skills) :
                            AttemptedOnce(a, "skill", k)

\* an install to all assistants in which an item failed for the first
\* assistant and an item was installed for the last one
C15_Witness ==
    /\ last.cmd = "install"
    /\ last.assistant = None
    /\ \E x \in last.failed : x.assistant = "claude-code"
    /\ \E x \in last.ok : x.assistant = "cursor" /\ x.kind = "skill"
    /\ \E x \in last.failed : x.assistant = "cursor"

\* C16: each call of install_to_assistant returns the number of skills plus
\* the number of commands of the record it stored, and returns 0 exactly when
\* it stored no record.
C16_ReturnsInstalledCount ==
    (last.cmd = "install" /\ last.summary > 0) =>
        \A a \in SeqToSet(AssistantsToInstall(last.assistant)) :
            LET stored == {r \in last.added : r.assistant = a}
                counts == {x.count : x \in {y \in last.returned : y.assistant = a}}
            IN  /\ Cardinality(counts) = 1
                /\ (0 \in counts) = (stored = {})
                /\ \A r \in stored :
                      /\ r \in Records
                      /\ counts = {Len(r.skills) + Len(r.commands)}

\* an install that stored a record with two skills for one assistant and no
\* record for another
C16_Witness ==
    /\ last.cmd = "install"
    /\ \E x \in last.returned : x.count = 0
    /\ \E r \in last.added : Len(r.skills) = 2

\* C17: for a module name m and an item name i that does not contain m + "-",
\* stripping the module prefix from the name generated for (m, i) gives i.
C17_NamingRoundTrip ==
    (last.cmd = "stripped" /\ ~Contains(last.out[1], last.module \o "-")) =>
        last.out[3] = last.out[1]

\* a name was generated and stripped for a module name that contains "-"
C17_Witness ==
    /\ last.cmd = "stripped"
    /\ last.module = "a-b"
    /\ last.out = <<"a-s", "a-b-a-s", "a-s">>

\* C18: an install never writes over an artifact that another module wrote:
\* the names generated for two different (module, item) pairs differ.
C18_NoOverwriteAcrossModules ==
    [][last'.cmd = "install" =>
          \A d \in last'.wrote :
              \A e \in disk : SameFile(d, e) => e.module = d.module]_vars

\* C19: an uninstall that was not cancelled ends without error and leaves no
\* record it matched in the registry, whichever of the records' skill
\* artifacts, command files, local module copies and project directories are
\* missing.
C19_AbsentArtifactIsNoOp ==
    (last.cmd = "uninstall" /\ last.matched # <<>> /\ last.error # "cancelled") =>
        /\ last.exit = 0
        /\ last.error = None
        /\ \A r \in SeqToSet(last.matched) : r \notin Records

\* an uninstall of a claude-code record with two skills of which one was
\* still on disk
C19_Witness ==
    /\ last.cmd = "uninstall"
    /\ last.error = None
    /\ \E r \in SeqToSet(last.matched) :
          /\ r.assistant = "claude-code"
          /\ Len(r.skills) = 2
          /\ Cardinality({d \in last.removed :
                             /\ d.assistant = "claude-code"
                             /\ d.kind = "skill"
                             /\ d.root = RootOf(r)}) = 1

\* C20: an uninstall leaves every module of the global store in the store.
C20_UninstallKeepsModuleInStore ==
    [][last'.cmd = "uninstall" =>
          \A m \in DOMAIN modules :
              modules[m].status # "absent" => modules'[m].status # "absent"]_vars

\* the modules a command works on
OperatedModules(l) ==
    IF l.cmd = "update" THEN {r.module_name : r \in SeqToSet(l.matched)}
    ELSE {l.module}

\* C21: an install, update or uninstall inserts and deletes sections of the
\* aggregate document only for the modules it works on: every section keyed
\* by another module is there afterwards exactly if it was there before.
C21_OtherModulesSectionsKept ==
    [][last'.cmd \in {"install", "update", "uninstall"} =>
          \A d \in disk \cup disk' :
              (d.kind = "section" /\ d.module \notin OperatedModules(last')) =>
                  (d \in disk <=> d \in disk')]_vars

\* an uninstall removed a section of one module from a document that holds a
\* section of the same skill of another module
C21_Witness ==
    /\ last.cmd = "uninstall"
    /\ \E d \in last.removed, e \in disk :
          /\ d.kind = "section" /\ e.kind = "section"
          /\ d.root = e.root /\ d.assistant = e.assistant
          /\ d.name = e.name
          /\ d.module = last.module /\ e.module # last.module

\* how many times the command did op on the registry file
CountOp(l, op) == Cardinality({i \in 1..Len(l.log) : l.log[i].op = op})

Commands == {"install", "uninstall", "update", "list"}

\* C22 as stated: a command reads the registry file at most once and
\* rewrites it at most once.
C22_RewrittenAtMostOnce ==
    last.cmd \in Commands =>
        CountOp(last, "read") <= 1 /\ CountOp(last, "write") <= 1

\* C22 as amended: a command reads the registry file at most once, before
\* anything else it does with the registry, and rewrites it once for every
\* mutating call: install once for each assistant it installed something
\* for, uninstall once for each record it removed, update and list never.
C22_ReadOnceRewritePerCall ==
    last.cmd \in Commands =>
        /\ CountOp(last, "read") <= 1
        /\ (last.log # <<>> => last.log[1].op = "read")
        /\ CountOp(last, "write") =
              CASE last.cmd = "install" ->
                      Cardinality({x \in last.returned : x.count > 0})
                [] last.cmd = "uninstall" ->
                      IF last.error = None THEN Len(last.matched) ELSE 0
                [] OTHER -> 0

\* an uninstall that removed two records and rewrote the file twice
C22_Witness ==
    /\ last.cmd = "uninstall"
    /\ last.error = None
    /\ Len(last.matched) = 2
    /\ CountOp(last, "read") = 1
    /\ CountOp(last, "write") = 2

\* the entries of the log that are parts of uninstall's loop body
IsUninstallStep(e) == e.op \in {"skills", "commands", "copy", "record"}

\* C30: for each record an uninstall works on, registry.remove comes after
\* the removal of the record's skill artifacts, of its command files and of
\* its local copy; after no part of the loop body is the record gone from
\* the registry while something it names is still there.
C30_RecordRemovedLast ==
    last.cmd = "uninstall" =>
        \A i \in 1..Len(last.log) :
            IsUninstallStep(last.log[i]) =>
                /\ (~last.log[i].recorded =>
                       /\ last.log[i].pending.files = {}
                       /\ last.log[i].pending.copy = {})
                /\ (last.log[i].op = "record" =>
                       \A k \in {"skills", "commands", "copy"} :
                           \E j \in 1..(i - 1) :
                               /\ last.log[j].op = k
                               /\ last.log[j].inst = last.log[i].inst)

\* an uninstall of a project-scope record: after the skills were removed the
\* record was still there with command files and the local copy to remove,
\* and in the end the record was removed
C30_Witness ==
    /\ last.cmd = "uninstall"
    /\ \E i, j \in 1..Len(last.log) :
          /\ i < j
          /\ last.log[i].op = "skills"
          /\ last.log[i].recorded
          /\ last.log[i].pending.files # {}
          /\ last.log[i].pending.copy # {}
          /\ last.log[j].op = "record"
          /\ last.log[j].inst = last.log[i].inst
          /\ ~last.log[j].recorded

\* the record is one the list's assistant filter lets through
Listed(r) == last.assistant = None \/ r.assistant = last.assistant

\* where the first listed record of the module stands in the registry
FirstListed(m) ==
    CHOOSE i \in 1..Len(registry) :
        /\ registry[i].module_name = m /\ Listed(registry[i])
        /\ \A j \in 1..(i - 1) :
              ~(registry[j].module_name = m /\ Listed(registry[j]))

\* C25: list shows exactly the records that pass the assistant filter, one
\* group per module name in the order in which the names first appear in the
\* registry, the records of a group in registry order; the count it reports
\* is the number of distinct module names shown; with no record to show it
\* reports that no modules are installed.
C25_ListGroupsByModule ==
    last.cmd = "list" =>
        LET shown == {r \in Records : Listed(r)}
            names == {r.module_name : r \in shown}
            OfGroup(g) == LET Of(r) == r.module_name = last.out[g].module /\ Listed(r)
                          IN  SelectSeq(registry, Of)
        IN  /\ (shown = {}) <=> (last.error = "no modules installed")
            /\ shown = {} => last.out = <<>>
            /\ {last.out[g].module : g \in 1..Len(last.out)} = names
            /\ Len(last.out) = Cardinality(names)
            /\ shown # {} => last.summary = Cardinality(names)
            /\ \A g \in 1..Len(last.out) : last.out[g].insts = OfGroup(g)
            /\ \A g, h \in 1..Len(last.out) :
                  g < h => FirstListed(last.out[g].module)
                              < FirstListed(last.out[h].module)
            /\ last.exit = 0

\* a list of two modules where the records of the first module stand on
\* both sides of the record of the second in the registry
C25_Witness ==
    /\ last.cmd = "list"
    /\ Len(last.out) = 2
    /\ last.summary = 2
    /\ Len(registry) = 3
    /\ registry[1].module_name = registry[3].module_name
    /\ registry[2].module_name # registry[1].module_name
    /\ Len(last.out[1].insts) = 2

C24_LastWriterWins ==
    procs.writer # 0 =>
        LET w == procs.run[procs.writer]
        IN  /\ registry = w.saved
            /\ SeqToSet(registry) \subseteq SeqToSet(w.read) \cup w.added
            /\ \A i, j \in 1..Len(registry) :
                  SameTuple(registry[i], registry[j].module_name,
                            registry[j].assistant, registry[j].scope,
                            registry[j].project_path) => i = j

\* two installs ran to their end; the second one to write had read the file
\* before the first one wrote, and a record the first one stored, for a
\* target the second did not install to, is not in the file
C24_Witness ==
    /\ procs.writer = 2
    /\ procs.run[1].pc = "done" /\ procs.run[2].pc = "done"
    /\ procs.run[1].kind = "install" /\ procs.run[2].kind = "install"
    /\ procs.run[2].added # {}
    /\ \E r \in procs.run[1].added :
          /\ r \notin SeqToSet(registry)
          /\ \A q \in procs.run[2].added :
                ~SameTuple(q, r.module_name, r.assistant, r.scope, r.project_path)

\* the names get_enabled_marketplaces returned
EnabledNames == {market.enabled[i].name : i \in 1..Len(market.enabled)}

C27_EnabledAndCachedOnly ==
    market.pc = "enabled" =>
        LET Good(i) == market.refs[i].enabled /\ market.refs[i].name \in market.cache
            good == {i \in 1..Len(market.refs) : Good(i)}
        IN  /\ Len(market.enabled) = Cardinality(good)
            /\ \A i \in good :
                  \E k \in 1..Len(market.enabled) :
                      /\ market.enabled[k].name = market.refs[i].name
                      /\ market.enabled[k].marketplace.modules =
                            Catalogs[market.refs[i].name]
                      /\ k = Cardinality({j \in good : j <= i})
            /\ \A i \in 1..Len(market.refs) :
                  ~market.refs[i].enabled => market.refs[i].name \notin EnabledNames
            /\ market.refs = <<>> => market.enabled = <<>>

\* get_enabled_marketplaces skipped a disabled marketplace that has a cache
\* file and returned an enabled one
C27_Witness ==
    /\ market.pc = "enabled"
    /\ Len(market.enabled) = 1
    /\ \E i \in 1..Len(market.refs) :
          ~market.refs[i].enabled /\ market.refs[i].name \in market.cache

RECURSIVE Upper(_)
\* the text in capital letters
Upper(text) ==
    IF text = "" THEN ""
    ELSE Fold(SubSeq(text, 1, 1), LowerCase, UpperCase)
            \o Upper(SubSeq(text, 2, Len(text)))

\* the query is in the text, whatever the case of the letters of either
InText(query, text) == Contains(Upper(text), Upper(query))

\* the catalog entries a search for the query is to find: <<i, j>> is entry j
\* of the catalog of reference i
Hits(query) ==
    {h \in (1..Len(market.refs)) \X (1..2) :
        /\ market.refs[h[1]].enabled
        /\ market.refs[h[1]].name \in market.cache
        /\ h[2] <= Len(Catalogs[market.refs[h[1]].name])
        /\ LET module == Catalogs[market.refs[h[1]].name][h[2]]
           IN  \/ "name" \in module.has /\ InText(query, module.name)
               \/ "description" \in module.has /\ InText(query, module.description)
               \/ /\ "tags" \in module.has
                  /\ \E t \in 1..Len(module.tags) : InText(query, module.tags[t])}

\* the place of a hit among the hits: marketplaces in their order, the
\* entries of a catalog in theirs
Rank(h, hits) ==
    Cardinality({g \in hits : g[1] < h[1] \/ (g[1] = h[1] /\ g[2] <= h[2])})

\* C28: search_market returns, marketplace after marketplace and in catalog
\* order, exactly the catalog entries of the enabled marketplaces in whose
\* name, description or tags the query occurs, letter case ignored on both
\* sides: nothing when there is none.
C28_SearchFindsExactlyTheMatches ==
    market.pc = "searched" =>
        LET hits == Hits(market.query)
        IN  /\ Len(market.results) = Cardinality(hits)
            /\ \A h \in hits :
                  LET result == market.results[Rank(h, hits)]
                  IN  /\ result.name = Catalogs[market.refs[h[1]].name][h[2]].name
                      /\ result.marketplace = market.refs[h[1]].name

\* a search in capital letters found entries of two marketplaces, one of them
\* by a tag
C28_Witness ==
    /\ market.pc = "searched"
    /\ market.query = "GIT"
    /\ Len(market.results) = 3
    /\ market.results[1].marketplace # market.results[3].marketplace
    /\ \E i \in 1..3 : market.results[i].name = "web"

\* C29: format_search_result leaves a description of at most 60 characters
\* as it is and cuts a longer one to its first 60 characters followed by
\* "...", so that the result never has more than 63; a missing description
\* and a missing version become empty texts.
C29_DescriptionCutAtSixty ==
    market.pc = "formatted" =>
        LET module == market.input[1]
            result == market.results[1]
        IN  /\ ("description" \in module.has /\ Len(module.description) <= 60) =>
                  result.description = module.description
            /\ ("description" \in module.has /\ Len(module.description) > 60) =>
                  /\ result.description = SubSeq(module.description, 1, 60) \o "..."
                  /\ Len(result.description) = 63
            /\ Len(result.description) <= 63
            /\ "description" \notin module.has => result.description = ""
            /\ "version" \notin module.has => result.version = ""
            /\ "version" \in module.has => result.version = module.version
            /\ result.name = module.name

\* a description of 61 characters was cut
C29_Witness ==
    /\ market.pc = "formatted"
    /\ "description" \in market.input[1].has
    /\ Len(market.input[1].description) = 61
    /\ Len(market.results[1].description) = 63

\* the record names the place of the file
NamesPlace(dsk, r, d) ==
    \E e \in SkillFilesOf(dsk, r.module_name, r)
             \cup CommandFilesOf(r.module_name, r) : SameFile(d, e)

\* C31: an uninstall leaves every record it did not match in the registry as
\* it was, and every skill and command artifact such a record names where it
\* was.
C31_UninstallTouchesOnlyMatched ==
    [][last'.cmd = "uninstall" =>
          \A r \in Records :
              r \notin SeqToSet(last'.matched) =>
                  /\ r \in SeqToSet(registry')
                  /\ \A d \in disk : NamesPlace(disk, r, d) => d \in disk']_vars

Regenerated ==
    {r \in SeqToSet(last.matched) :
        /\ ~IsStale(r, projects)
        /\ modules[r.module_name].status = "ok"
        /\ GetAssistantSkillPath(r.assistant, r.scope, r.project_path)
              # ValueError}

\* the recorded name without the leading "<module>-", when it has one
SourceName(r, n) ==
    LET k == Len(r.module_name) + 1
    IN  IF Len(n) >= k /\ SubSeq(n, 1, k) = r.module_name \o "-"
        THEN SubSeq(n, k + 1, Len(n))
        ELSE n

\* the file a skill of that name is at the record's skill destination
SkillFileNamed(r, name) ==
    Artifact(GetAssistantSkillPath(r.assistant, r.scope, r.project_path),
             "skill", IF r.assistant = "cursor" THEN name \o ".mdc" ELSE name,
             r.module_name)

\* C34: update takes as source of a recorded skill the recorded name without
\* one leading "<module>-", or the recorded name itself when it does not
\* start with it: the skill is regenerated exactly when that source is in
\* the module, and for claude-code and cursor the file written has the
\* recorded name and no file of another name is written.
C34_UpdateResolvesRecordedName ==
    last.cmd = "update" =>
        /\ \A r \in Regenerated :
              \A n \in SeqToSet(r.skills) :
                  LET found == SourceName(r, n) \in modules[r.module_name].srcSkills
                      done == [assistant |-> r.assistant, kind |-> "skill",
                               name |-> n, inst |-> r] \in last.ok
                  IN  /\ done <=> found
                      /\ (found /\ r.assistant # "gemini-cli") =>
                            SkillFileNamed(r, n) \in last.wrote
        /\ \A d \in last.wrote :
              d.kind = "skill" =>
                  \E r \in Regenerated :
                      \E n \in SeqToSet(r.skills) : d = SkillFileNamed(r, n)

\* an update of a record that names the skill s1 without prefix and the
\* skill a-a-s1: both are regenerated under the recorded names, the second
\* from the source a-s1, and nothing is written under the name a-s1
C34_Witness ==
    /\ last.cmd = "update"
    /\ \E r \in Regenerated :
          /\ r.assistant = "claude-code"
          /\ SkillFileNamed(r, "s1") \in last.wrote
          /\ SkillFileNamed(r, "a-a-s1") \in last.wrote
          /\ SkillFileNamed(r, "a-s1") \notin disk

\* C35: the number in the last line an install prints is the number of items
\* installed, summed over the assistants; with no item installed that line
\* does not report an installation.
C35_SummaryCountsInstalledItems ==
    last.cmd = "install" /\ last.error = None =>
        /\ last.summary = last.count
        /\ last.count = 0 => last.summary = 0

\* C36: copy_module_to_local leaves the module in the store as it is; called
\* with a destination that is the module itself (the store as local modules
\* directory, a local modules directory linked to the store, a link to the
\* module) it changes no file; otherwise the destination is afterwards a
\* directory with the content of the module, whatever stood there, nothing
\* else has changed, and a second call changes nothing more.
C36_CopyKeepsSourceAndIsIdempotent ==
    [][last'.cmd = "copy" =>
          LET p == last'.project_path
          IN  /\ fs'.store = fs.store
              /\ IF \/ p = "MODULES_DIR"
                    \/ fs.parent[p] = "store"
                    \/ fs.dest[p] = Link("module")
                 THEN fs' = fs
                 ELSE /\ fs'.dest[p] = Dir(fs.store)
                      /\ fs'.parent[p] = "dir"
                      /\ \A q \in CopyPlaces \ {p} :
                            /\ fs'.dest[q] = fs.dest[q]
                            /\ fs'.parent[q] = fs.parent[q]
              /\ CopyToLocal(fs', p) = fs']_vars

\* the module was copied to a place where a link to another directory
\* stood, after the module in the store had changed: the place holds a copy
\* of the module as it is now
C36_Witness ==
    /\ last.cmd = "copy"
    /\ last.out = <<Link("elsewhere")>>
    /\ fs.store = 2
    /\ fs.dest[last.project_path] = Dir(2)

\* the record is one of another assistant for the same module and project
Sibling(q, r) ==
    /\ q.module_name = r.module_name
    /\ q.scope = "project"
    /\ q.project_path = r.project_path
    /\ q.assistant # r.assistant

\* C37: an uninstall that removes a project-scope record removes the
\* project-local copy of the module, whether or not records of other
\* assistants for the module and the project remain; such records stay in
\* the registry as they were; and an update of a project-scope record whose
\* project is there and whose module is in the store leaves the local copy
\* in place, made anew by that update, and regenerates what the record names
\* and the module still has.
C37_LocalCopyRemovedAndRecreated ==
    [][/\ last'.cmd = "uninstall" =>
             \A r \in SeqToSet(registry) \ SeqToSet(registry') :
                 /\ LocalCopyOf(r.module_name, r) \cap local' = {}
                 /\ \A q \in SeqToSet(registry) :
                       (Sibling(q, r) /\ q \notin SeqToSet(last'.matched)) =>
                           q \in SeqToSet(registry')
       /\ last'.cmd = "update" =>
             \A r \in SeqToSet(last'.matched) :
                 (/\ r.scope = "project"
                  /\ ~IsStale(r, projects)
                  /\ modules[r.module_name].status = "ok") =>
                     /\ LocalCopyOf(r.module_name, r) \subseteq local'
                     /\ LocalCopyOf(r.module_name, r) \subseteq last'.copied
                     /\ \A n \in SeqToSet(r.skills) :
                           OriginalSkill(r.module_name, n)
                                 \in modules[r.module_name].srcSkills =>
                               [assistant |-> r.assistant, kind |-> "skill",
                                name |-> n, inst |-> r] \in last'.ok]_vars

\* after the uninstall of one assistant's record the project has no local
\* copy of the module, and the record of another assistant for the module
\* and the project is in the registry
C37_Witness ==
    /\ last.cmd = "uninstall"
    /\ last.error = None
    /\ Len(last.matched) = 1
    /\ last.matched[1].scope = "project"
    /\ last.matched[1] \notin Records
    /\ LocalCopyOf(last.module, last.matched[1]) \cap local = {}
    /\ \E q \in Records : Sibling(q, last.matched[1])

\* the records of the registry for the tuple
RecordsOf(reg, module_name, assistant, scope, project_path) ==
    {r \in SeqToSet(reg) : SameTuple(r, module_name, assistant, scope, project_path)}

\* C38: in every call of install_to_assistant the record is stored after
\* every skill and command write of the call, and whenever the call has
\* stored its record every file of the items the record names is written;
\* an install killed before that leaves the registry without a record from
\* that call.
C38_RecordAfterWrites ==
    [][last'.cmd \in {"install", "killed"} =>
          /\ \A i \in 1..Len(last'.log) :
                last'.log[i].op = "step" =>
                    /\ last'.log[i].recorded => last'.log[i].unwritten = {}
                    /\ last'.log[i].part = "record" =>
                          \A j \in 1..Len(last'.log) :
                              (/\ last'.log[j].op = "step"
                               /\ last'.log[j].assistant = last'.log[i].assistant
                               /\ last'.log[j].part # "record") => j < i
          /\ last'.cmd = "killed" =>
                RecordsOf(registry', last'.module, last'.out[1], last'.scope,
                          last'.project_path)
                   = RecordsOf(registry, last'.module, last'.out[1], last'.scope,
                               last'.project_path)]_vars

\* an install was killed after it had written files for an assistant: the
\* files are there, and the registry has no record for that assistant
C38_Witness ==
    /\ last.cmd = "killed"
    /\ \E d \in last.wrote : d.assistant = last.out[1] /\ d \in disk
    /\ RecordsOf(registry, last.module, last.out[1], last.scope,
                 last.project_path) = {}

\* the assistants for which the last install installed nothing
InstalledNothing(l) ==
    {a \in SeqToSet(AssistantsToInstall(l.assistant)) :
        [assistant |-> a, count |-> 0] \in l.returned}

\* C39: an install that installs no item for an assistant leaves the
\* registry's record for that module, assistant, scope and project as it
\* was: a record that was there is still there with the same skills and
\* commands, and none is added.
C39_EmptyInstallKeepsRecord ==
    [][last'.cmd = "install" /\ last'.error = None =>
          \A a \in InstalledNothing(last') :
              RecordsOf(registry', last'.module, a, last'.scope, last'.project_path)
                 = RecordsOf(registry, last'.module, a, last'.scope,
                             last'.project_path)]_vars

\* an install has installed nothing for an assistant, and the record an
\* earlier install stored for it is in the registry with its commands
C39_Witness ==
    /\ last.cmd = "install" /\ last.error = None
    /\ \E a \in InstalledNothing(last) :
          \E r \in RecordsOf(registry, last.module, a, last.scope, last.project_path) :
              r.commands # <<>>

====
